---- MODULE Spec2Model ----
(***************************************************************************)
(* A model of labtasker's DBService (src/labtasker/server/database.py):    *)
(* the task and worker documents, the operations that change them, the     *)
(* fetch_task selector and the handle_timeouts sweep.                      *)
(*                                                                         *)
(* The document store is MongoDB as DBService.transaction uses it: every   *)
(* operation runs in one multi-document transaction on a snapshot of the   *)
(* store.  A transaction that writes a document which another transaction  *)
(* has changed since the snapshot ends with a write conflict, which        *)
(* DBService.transaction turns into HTTP 500 after aborting.  Operations   *)
(* are atomic actions (a transaction that begins and commits with nothing  *)
(* in between); fetch_task can also run in two steps, FetchBegin and       *)
(* FetchCommit, so that other requests commit between its snapshot and     *)
(* its write.                                                              *)
(*                                                                         *)
(* Python's None is None (-1); ids are positive integers handed out in     *)
(* order and never reused (uuid4); instants are milliseconds.              *)
(***************************************************************************)
EXTENDS Integers, Sequences, FiniteSets, TLC

\* ---------------------------------------------------------------- bounds
MaxTasks == 2
MaxWorkers == 2
MaxTicks == 2
MaxRetries == 1
MaxProcs == 2
MaxDepth == 2

\* ------------------------------------------------------------- constants
None == -1
MsPerSecond == 1000
PriorityMedium == 10
PriorityHigh == 20
SecondsPerMinute == 60
SecondsPerHour == 3600

PENDING == "pending"
RUNNING == "running"
SUCCESS == "success"
FAILED == "failed"
CANCELLED == "cancelled"
TaskState == {PENDING, RUNNING, SUCCESS, FAILED, CANCELLED}

ACTIVE == "active"
SUSPENDED == "suspended"
CRASHED == "crashed"
WorkerState == {ACTIVE, SUSPENDED, CRASHED}

QueueIds == {1}
\* The queue ids of the specification with several queues.
AllQueueIds == {1, 2}
QueueNames == {"q1", "q2"}
TaskIds == 1..MaxTasks
WorkerIds == 1..MaxWorkers
Procs == 1..MaxProcs

\* Python truthiness of an optional number or id: None and 0 are falsy.
Truthy(x) == x # None /\ x # 0

\* A Python dict is a function from its keys; {} is the function with no key.
EmptyDict == [k \in {} |-> 0]

\* {**base, **over}: a key of both takes over's value.
DictMerge(base, over) == over @@ base

\* ------------------------------------------------------------------ FSMs
\* labtasker/server/fsm.py is not among the source files: the transitions
\* are those of the specification's tables (4.1, 4.2).
InvalidTransition == [ok |-> FALSE, state |-> "invalid", retries |-> 0]

Transition(state, retries) == [ok |-> TRUE, state |-> state, retries |-> retries]

TaskFSM_complete(state, retries, max_retries) ==
    IF state = RUNNING THEN Transition(SUCCESS, retries) ELSE InvalidTransition

TaskFSM_cancel(state, retries, max_retries) ==
    IF state = RUNNING THEN Transition(CANCELLED, retries) ELSE InvalidTransition

TaskFSM_fail(state, retries, max_retries) ==
    IF state # RUNNING THEN InvalidTransition
    ELSE IF retries + 1 <= max_retries THEN Transition(PENDING, retries + 1)
    ELSE Transition(FAILED, retries + 1)

WorkerFSM_activate(state, retries, max_retries) ==
    IF state \in {SUSPENDED, CRASHED} THEN Transition(ACTIVE, 0) ELSE InvalidTransition

WorkerFSM_suspend(state, retries, max_retries) ==
    IF state = ACTIVE THEN Transition(SUSPENDED, retries) ELSE InvalidTransition

WorkerFSM_fail(state, retries, max_retries) ==
    IF state # ACTIVE THEN InvalidTransition
    ELSE IF retries + 1 <= max_retries THEN Transition(ACTIVE, retries + 1)
    ELSE Transition(CRASHED, retries + 1)

\* --------------------------------------------------------------- results
\* What an operation hands back: the error kind ("ok" when it returned), the
\* returned value, and the store its transaction leaves.  An operation that
\* raises aborts its transaction: the store is the one it started from.
Ok(ret, tks, wks) == [err |-> "ok", ret |-> ret, tasks |-> tks, workers |-> wks]

Raise(err, tks, wks) == [err |-> err, ret |-> None, tasks |-> tks, workers |-> wks]

\* The documents of `new` that are not as they are in `old` (modified_count
\* counts the documents an update really changed).
Changed(old, new) ==
    {i \in DOMAIN old \cup DOMAIN new :
        \/ i \notin DOMAIN old
        \/ i \notin DOMAIN new
        \/ old[i] # new[i]}

\* --------------------------------------------------------------- filters
\* A filter document is a dict from field paths to the value the field must
\* equal; "$and" holds a sequence of filter documents, "$where" stands for
\* the operators that run code on the store.
DangerousOperators == {"$where"}

\* The value of a document's field by its dotted path; a path the document
\* does not have gives "missing", which equals no value of a filter.
ArgsPath(k) == "args." \o k

HasField(doc, path) ==
    \/ path \in DOMAIN doc
    \/ \E k \in DOMAIN doc.args : path = ArgsPath(k)

GetField(doc, path) ==
    IF path \in DOMAIN doc THEN doc[path]
    ELSE doc.args[CHOOSE k \in DOMAIN doc.args : path = ArgsPath(k)]

RECURSIVE MatchFilter(_, _)
MatchFilter(doc, filter) ==
    \A key \in DOMAIN filter :
        IF key = "$and"
        THEN \A i \in DOMAIN filter[key] : MatchFilter(doc, filter[key][i])
        ELSE HasField(doc, key) /\ GetField(doc, key) = filter[key]

\* query_dict_to_mongo_filter(required_fields, parent_key="args"):
\* {k: v} becomes {"args.k": v}.
query_dict_to_mongo_filter(required_fields) ==
    LET paths == {ArgsPath(k) : k \in DOMAIN required_fields}
    IN  [p \in paths |->
            required_fields[CHOOSE k \in DOMAIN required_fields : p = ArgsPath(k)]]

\* merge_filter(a, b, logical_op="and"): the empty filters dropped, one
\* filter as it is, two under "$and".
merge_filter(a, b) ==
    IF DOMAIN a = {} THEN b
    ELSE IF DOMAIN b = {} THEN a
    ELSE [k \in {"$and"} |-> <<a, b>>]

\* sanitize_query conjuncts the queue at the top level; a filter with a
\* dangerous operator is rejected (Rejected below).
sanitize_query(queue_id, query) ==
    [k \in {"$and"} |-> << [j \in {"queue_id"} |-> queue_id], query >>]

RECURSIVE Rejected(_)
Rejected(filter) ==
    \E key \in DOMAIN filter :
        \/ key \in DangerousOperators
        \/ key = "$and" /\ \E i \in DOMAIN filter[key] : Rejected(filter[key][i])

\* arg_match(required_fields, args): every required path is in args with
\* an equal value.
arg_match(required_fields, args) ==
    \A k \in DOMAIN required_fields :
        k \in DOMAIN args /\ args[k] = required_fields[k]

\* parse_timeout: "<value><unit>" to seconds.  eta_max is <<value, unit>>,
\* and <<>> when the caller gives none.
parse_timeout(eta_max) ==
    IF eta_max[2] = "h" THEN eta_max[1] * SecondsPerHour
    ELSE IF eta_max[2] = "m" THEN eta_max[1] * SecondsPerMinute
    ELSE eta_max[1]

\* task_timeout = parse_timeout(eta_max) if eta_max else None
EtaTimeout(eta_max) == IF eta_max # <<>> THEN parse_timeout(eta_max) ELSE None

\* ------------------------------------------------------------ documents
\* The task document create_task inserts.  task_name, metadata and cmd are
\* written once and read by no operation; they are left out of the state.
NewTask(queue_id, clock, args, heartbeat_timeout, task_timeout, max_retries, priority) ==
    [queue_id |-> queue_id,
     status |-> PENDING,
     created_at |-> clock,
     start_time |-> None,
     last_heartbeat |-> None,
     last_modified |-> clock,
     heartbeat_timeout |-> heartbeat_timeout,
     task_timeout |-> task_timeout,
     max_retries |-> max_retries,
     retries |-> 0,
     priority |-> priority,
     args |-> args,
     summary |-> EmptyDict,
     worker_id |-> None]

\* The worker document create_worker inserts (worker_name, metadata and the
\* two timestamps, which no operation reads, left out).
NewWorker(queue_id, max_retries) ==
    [queue_id |-> queue_id,
     status |-> ACTIVE,
     retries |-> 0,
     max_retries |-> max_retries]

\* find_one({"_id": id, "queue_id": queue_id}) finds a document.
Found(coll, id, queue_id) == id \in DOMAIN coll /\ coll[id].queue_id = queue_id

\* ------------------------------------------------------------ operations
\* The document create_queue inserts (the password hash is left out).
NewQueue(queue_name, clock) ==
    [queue_name |-> queue_name,
     created_at |-> clock,
     last_modified |-> clock,
     metadata |-> EmptyDict]

\* What an operation on the queues collection hands back: r and the queues.
WithQueues(r, qs) ==
    [err |-> r.err, ret |-> r.ret, tasks |-> r.tasks, workers |-> r.workers,
     queues |-> qs]

\* create_queue: an empty name is a bad request; the unique index on
\* queue_name refuses a second queue of the same name.
create_queue(qs, tks, wks, clock, id, queue_name) ==
    IF queue_name = ""
    THEN WithQueues(Raise("BadRequest", tks, wks), qs)
    ELSE IF \E q \in DOMAIN qs : qs[q].queue_name = queue_name
    THEN WithQueues(Raise("Conflict", tks, wks), qs)
    ELSE WithQueues(Ok(id, tks, wks), (id :> NewQueue(queue_name, clock)) @@ qs)

\* update_queue without the look-up of the new name.
update_queue_unchecked(qs, tks, wks, clock, queue_id, new_queue_name) ==
    LET doc == [qs[queue_id] EXCEPT
                  !.last_modified = clock,
                  !.queue_name = IF new_queue_name # "" THEN new_queue_name ELSE @]
    IN  IF queue_id \notin DOMAIN qs THEN WithQueues(Ok(0, tks, wks), qs)
        ELSE WithQueues(Ok(IF doc = qs[queue_id] THEN 0 ELSE 1, tks, wks),
                        [qs EXCEPT ![queue_id] = doc])

\* update_queue with a new name (password and metadata are left out): a
\* non-empty new name that some queue carries is a bad request; otherwise
\* update_one sets last_modified and the name and modified_count is
\* returned.
update_queue(qs, tks, wks, clock, queue_id, new_queue_name) ==
    LET doc == [qs[queue_id] EXCEPT
                  !.last_modified = clock,
                  !.queue_name = IF new_queue_name # "" THEN new_queue_name ELSE @]
    IN  IF new_queue_name # "" /\ \E q \in DOMAIN qs : qs[q].queue_name = new_queue_name
        THEN WithQueues(Raise("BadRequest", tks, wks), qs)
        ELSE IF queue_id \notin DOMAIN qs THEN WithQueues(Ok(0, tks, wks), qs)
        ELSE WithQueues(Ok(IF doc = qs[queue_id] THEN 0 ELSE 1, tks, wks),
                        [qs EXCEPT ![queue_id] = doc])

\* delete_queue that cascades to the tasks only.
delete_queue_keep_workers(qs, tks, wks, queue_id, cascade_delete) ==
    LET gone == {t \in DOMAIN tks : tks[t].queue_id = queue_id /\ cascade_delete}
    IN  WithQueues(Ok((IF queue_id \in DOMAIN qs THEN 1 ELSE 0) + Cardinality(gone),
                      [t \in DOMAIN tks \ gone |-> tks[t]], wks),
                   [q \in DOMAIN qs \ {queue_id} |-> qs[q]])

\* delete_queue: delete_one on the queues, then with cascade_delete
\* delete_many on the tasks and on the workers of the queue; the counts of
\* the deletes are summed.
delete_queue(qs, tks, wks, queue_id, cascade_delete) ==
    LET gone == {t \in DOMAIN tks : tks[t].queue_id = queue_id /\ cascade_delete}
        wgone == {w \in DOMAIN wks : wks[w].queue_id = queue_id /\ cascade_delete}
    IN  WithQueues(Ok((IF queue_id \in DOMAIN qs THEN 1 ELSE 0)
                         + Cardinality(gone) + Cardinality(wgone),
                      [t \in DOMAIN tks \ gone |-> tks[t]],
                      [w \in DOMAIN wks \ wgone |-> wks[w]]),
                   [q \in DOMAIN qs \ {queue_id} |-> qs[q]])

create_task(tks, wks, clock, id, queue_id, args, cmd, heartbeat_timeout, task_timeout, max_retries, priority) ==
    IF DOMAIN args = {} /\ cmd = ""
    THEN Raise("BadRequest", tks, wks)
    ELSE Ok(id,
            (id :> NewTask(queue_id, clock, args, heartbeat_timeout,
                           task_timeout, max_retries, priority)) @@ tks,
            wks)

create_worker(tks, wks, id, queue_id, max_retries) ==
    Ok(id, tks, (id :> NewWorker(queue_id, max_retries)) @@ wks)

delete_task(tks, wks, queue_id, task_id) ==
    IF Found(tks, task_id, queue_id)
    THEN Ok(1, [t \in DOMAIN tks \ {task_id} |-> tks[t]], wks)
    ELSE Ok(0, tks, wks)

\* delete_worker that deletes the worker and never updates its tasks.
delete_worker_keep_tasks(tks, wks, clock, queue_id, worker_id, cascade_update) ==
    IF Found(wks, worker_id, queue_id)
    THEN Ok(1, tks, [w \in DOMAIN wks \ {worker_id} |-> wks[w]])
    ELSE Ok(0, tks, wks)

delete_worker(tks, wks, clock, queue_id, worker_id, cascade_update) ==
    LET deleted == IF Found(wks, worker_id, queue_id) THEN 1 ELSE 0
        wks2 == IF deleted = 1
                THEN [w \in DOMAIN wks \ {worker_id} |-> wks[w]]
                ELSE wks
        held(t) == tks[t].queue_id = queue_id /\ tks[t].worker_id = worker_id
        tks2 == IF cascade_update
                THEN [t \in DOMAIN tks |->
                        IF held(t)
                        THEN [tks[t] EXCEPT !.worker_id = None, !.last_modified = clock]
                        ELSE tks[t]]
                ELSE tks
    IN  Ok(deleted + Cardinality(Changed(tks, tks2)), tks2, wks2)

\* ------------------------------------------------------------ fetch_task
\* The errors fetch_task raises before it looks for a task.
\* The checks of fetch_task without the worker's status.
FetchErrorAnyStatus(wks, queue_id, worker_id, eta_max, start_heartbeat, required_fields, extra_filter) ==
    LET task_timeout == EtaTimeout(eta_max)
    IN  IF ~start_heartbeat /\ ~Truthy(task_timeout) THEN "BadRequest"
        ELSE IF Truthy(worker_id) /\ ~Found(wks, worker_id, queue_id) THEN "NotFound"
        ELSE IF Rejected(extra_filter) THEN "BadRequest"
        ELSE "ok"

\* The checks with the worker looked up before eta_max is looked at.
FetchErrorWorkerFirst(wks, queue_id, worker_id, eta_max, start_heartbeat, required_fields, extra_filter) ==
    LET task_timeout == EtaTimeout(eta_max)
    IN  IF Truthy(worker_id) /\ ~Found(wks, worker_id, queue_id) THEN "NotFound"
        ELSE IF Truthy(worker_id) /\ wks[worker_id].status # ACTIVE THEN "Forbidden"
        ELSE IF ~start_heartbeat /\ ~Truthy(task_timeout) THEN "BadRequest"
        ELSE IF Rejected(extra_filter) THEN "BadRequest"
        ELSE "ok"

FetchError(wks, queue_id, worker_id, eta_max, start_heartbeat, required_fields, extra_filter) ==
    LET task_timeout == EtaTimeout(eta_max)
    IN  IF ~start_heartbeat /\ ~Truthy(task_timeout) THEN "BadRequest"
        ELSE IF Truthy(worker_id) /\ ~Found(wks, worker_id, queue_id) THEN "NotFound"
        ELSE IF Truthy(worker_id) /\ wks[worker_id].status # ACTIVE THEN "Forbidden"
        ELSE IF Rejected(extra_filter) THEN "BadRequest"
        ELSE "ok"

\* query = {"queue_id": queue_id, "status": PENDING, **sanitized_filter}.  The
\* first variant is the query without its status.
FetchQueryNoStatus(queue_id, required_fields, extra_filter) ==
    DictMerge([queue_id |-> queue_id],
              sanitize_query(queue_id,
                  merge_filter(query_dict_to_mongo_filter(required_fields),
                               extra_filter)))

FetchQuery(queue_id, required_fields, extra_filter) ==
    DictMerge([queue_id |-> queue_id, status |-> PENDING],
              sanitize_query(queue_id,
                  merge_filter(query_dict_to_mongo_filter(required_fields),
                               extra_filter)))

\* update = {"$set": {...}}, with the two optional overrides.  The first
\* variant is the update without its start_time, the second keeps the old
\* last_heartbeat when start_heartbeat is false.
FetchUpdateNoStartTime(doc, clock, worker_id, eta_max, heartbeat_timeout, start_heartbeat) ==
    [doc EXCEPT
        !.status = RUNNING,
        !.last_heartbeat = IF start_heartbeat THEN clock ELSE None,
        !.last_modified = clock,
        !.worker_id = worker_id]

FetchUpdateKeepHeartbeat(doc, clock, worker_id, eta_max, heartbeat_timeout, start_heartbeat) ==
    LET task_timeout == EtaTimeout(eta_max)
    IN  [doc EXCEPT
            !.status = RUNNING,
            !.start_time = clock,
            !.last_heartbeat = IF start_heartbeat THEN clock ELSE @,
            !.last_modified = clock,
            !.worker_id = worker_id,
            !.task_timeout = IF Truthy(task_timeout) THEN task_timeout ELSE @,
            !.heartbeat_timeout =
                IF Truthy(heartbeat_timeout) THEN heartbeat_timeout ELSE @]

FetchUpdate(doc, clock, worker_id, eta_max, heartbeat_timeout, start_heartbeat) ==
    LET task_timeout == EtaTimeout(eta_max)
    IN  [doc EXCEPT
            !.status = RUNNING,
            !.start_time = clock,
            !.last_heartbeat = IF start_heartbeat THEN clock ELSE None,
            !.last_modified = clock,
            !.worker_id = worker_id,
            !.task_timeout = IF Truthy(task_timeout) THEN task_timeout ELSE @,
            !.heartbeat_timeout =
                IF Truthy(heartbeat_timeout) THEN heartbeat_timeout ELSE @]

\* sort=[("priority", -1), ("last_modified", 1), ("created_at", 1)]: a comes
\* before b in the cursor.  Documents equal in all three keys come in either
\* order.  The first variant sorts the priority ascending.
SortsBeforeAscending(a, b) ==
    \/ a.priority < b.priority
    \/ a.priority = b.priority /\ a.last_modified < b.last_modified
    \/ /\ a.priority = b.priority
       /\ a.last_modified = b.last_modified
       /\ a.created_at < b.created_at

SortsBefore(a, b) ==
    \/ a.priority > b.priority
    \/ a.priority = b.priority /\ a.last_modified < b.last_modified
    \/ /\ a.priority = b.priority
       /\ a.last_modified = b.last_modified
       /\ a.created_at < b.created_at

\* The loop over the cursor: the tasks it does not skip, and those of them
\* that can come first.  In a transaction find_one_and_update({"_id": ...})
\* on a document of the transaction's own snapshot always applies, so the
\* loop ends at the first task it does not skip.
FetchCandidates(tks, query, required_fields) ==
    {t \in DOMAIN tks :
        /\ MatchFilter(tks[t], query)
        /\ (DOMAIN required_fields = {} \/ arg_match(required_fields, tks[t].args))}

FetchFirst(tks, query, required_fields) ==
    LET c == FetchCandidates(tks, query, required_fields)
    IN  {t \in c : \A u \in c : ~SortsBefore(tks[u], tks[t])}

\* The tasks a call may return: None when the cursor holds none it takes.
FetchPicks(tks, queue_id, required_fields, extra_filter) ==
    LET first == FetchFirst(tks, FetchQuery(queue_id, required_fields, extra_filter),
                            required_fields)
    IN  IF first = {} THEN {None} ELSE first

fetch_task(tks, wks, clock, queue_id, worker_id, eta_max, heartbeat_timeout, start_heartbeat, required_fields, extra_filter, pick) ==
    LET err == FetchError(wks, queue_id, worker_id, eta_max, start_heartbeat,
                          required_fields, extra_filter)
    IN  IF err # "ok" THEN Raise(err, tks, wks)
        ELSE IF pick = None THEN Ok(None, tks, wks)
        ELSE Ok(pick,
                [tks EXCEPT ![pick] = FetchUpdate(@, clock, worker_id, eta_max,
                                                  heartbeat_timeout, start_heartbeat)],
                wks)

\* refresh_task_heartbeat; the first variant also sets last_modified.
refresh_task_heartbeat_touch(tks, wks, clock, queue_id, task_id) ==
    IF Found(tks, task_id, queue_id)
    THEN Ok(tks[task_id].last_heartbeat # clock,
            [tks EXCEPT ![task_id].last_heartbeat = clock,
                        ![task_id].last_modified = clock], wks)
    ELSE Ok(FALSE, tks, wks)

refresh_task_heartbeat(tks, wks, clock, queue_id, task_id) ==
    IF Found(tks, task_id, queue_id)
    THEN Ok(tks[task_id].last_heartbeat # clock,
            [tks EXCEPT ![task_id].last_heartbeat = clock], wks)
    ELSE Ok(FALSE, tks, wks)

\* ---------------------------------------------------------------- reports
\* sanitize_dict and add_key_prefix(summary_update, "summary."): the update
\* sets summary.<key> for every key of summary_update.
MergeSummary(summary, summary_update) == DictMerge(summary, summary_update)

\* _report_worker_status that writes the status and not the retries.
_report_worker_status_keep_retries(tks, wks, queue_id, worker_id, report_status) ==
    IF ~Found(wks, worker_id, queue_id) THEN Raise("NotFound", tks, wks)
    ELSE
    LET worker == wks[worker_id]
        fsm == IF report_status = "active"
                 THEN WorkerFSM_activate(worker.status, worker.retries, worker.max_retries)
               ELSE IF report_status = "suspended"
                 THEN WorkerFSM_suspend(worker.status, worker.retries, worker.max_retries)
               ELSE IF report_status = "failed"
                 THEN WorkerFSM_fail(worker.status, worker.retries, worker.max_retries)
               ELSE InvalidTransition
    IN  IF ~fsm.ok THEN Raise("BadRequest", tks, wks)
        ELSE Ok(TRUE, tks, [wks EXCEPT ![worker_id].status = fsm.state])

\* _report_worker_status that takes every report_status but "active" and
\* "suspended" as a failure.
_report_worker_status_lenient(tks, wks, queue_id, worker_id, report_status) ==
    IF ~Found(wks, worker_id, queue_id) THEN Raise("NotFound", tks, wks)
    ELSE
    LET worker == wks[worker_id]
        fsm == IF report_status = "active"
                 THEN WorkerFSM_activate(worker.status, worker.retries, worker.max_retries)
               ELSE IF report_status = "suspended"
                 THEN WorkerFSM_suspend(worker.status, worker.retries, worker.max_retries)
               ELSE WorkerFSM_fail(worker.status, worker.retries, worker.max_retries)
    IN  IF ~fsm.ok THEN Raise("BadRequest", tks, wks)
        ELSE Ok(TRUE, tks,
                [wks EXCEPT ![worker_id].status = fsm.state,
                            ![worker_id].retries = fsm.retries])

\* _report_worker_status: the worker FSM's event for report_status, written
\* to the worker.
\* _report_worker_status that finds the worker by its id alone.
_report_worker_status_any_queue(tks, wks, queue_id, worker_id, report_status) ==
    IF worker_id \notin DOMAIN wks THEN Raise("NotFound", tks, wks)
    ELSE
    LET worker == wks[worker_id]
        fsm == IF report_status = "active"
                 THEN WorkerFSM_activate(worker.status, worker.retries, worker.max_retries)
               ELSE IF report_status = "suspended"
                 THEN WorkerFSM_suspend(worker.status, worker.retries, worker.max_retries)
               ELSE IF report_status = "failed"
                 THEN WorkerFSM_fail(worker.status, worker.retries, worker.max_retries)
               ELSE InvalidTransition
    IN  IF ~fsm.ok THEN Raise("BadRequest", tks, wks)
        ELSE Ok(TRUE, tks,
                [wks EXCEPT ![worker_id].status = fsm.state,
                            ![worker_id].retries = fsm.retries])

_report_worker_status(tks, wks, queue_id, worker_id, report_status) ==
    IF ~Found(wks, worker_id, queue_id) THEN Raise("NotFound", tks, wks)
    ELSE
    LET worker == wks[worker_id]
        fsm == IF report_status = "active"
                 THEN WorkerFSM_activate(worker.status, worker.retries, worker.max_retries)
               ELSE IF report_status = "suspended"
                 THEN WorkerFSM_suspend(worker.status, worker.retries, worker.max_retries)
               ELSE IF report_status = "failed"
                 THEN WorkerFSM_fail(worker.status, worker.retries, worker.max_retries)
               ELSE InvalidTransition
    IN  IF ~fsm.ok THEN Raise("BadRequest", tks, wks)
        ELSE Ok(TRUE, tks,
                [wks EXCEPT ![worker_id].status = fsm.state,
                            ![worker_id].retries = fsm.retries])

report_worker_status(tks, wks, queue_id, worker_id, report_status) ==
    _report_worker_status(tks, wks, queue_id, worker_id, report_status)

\* The task FSM's event for a report_status; any other value is a BadRequest.
\* The report's FSM event with every unknown report_status taken as success.
ReportFSMLenient(task, report_status) ==
    IF report_status = "failed"
      THEN TaskFSM_fail(task.status, task.retries, task.max_retries)
    ELSE IF report_status = "cancelled"
      THEN TaskFSM_cancel(task.status, task.retries, task.max_retries)
    ELSE TaskFSM_complete(task.status, task.retries, task.max_retries)

ReportFSM(task, report_status) ==
    IF report_status = "success"
      THEN TaskFSM_complete(task.status, task.retries, task.max_retries)
    ELSE IF report_status = "failed"
      THEN TaskFSM_fail(task.status, task.retries, task.max_retries)
    ELSE IF report_status = "cancelled"
      THEN TaskFSM_cancel(task.status, task.retries, task.max_retries)
    ELSE InvalidTransition

\* The task document _report_task_status writes; the first variant leaves
\* retries out of the update.
ReportUpdateKeepRetries(task, fsm, clock, summary_update) ==
    [task EXCEPT
        !.status = fsm.state,
        !.last_modified = clock,
        !.worker_id = None,
        !.summary = MergeSummary(@, summary_update)]

\* The report's update without worker_id.
ReportUpdateKeepWorker(task, fsm, clock, summary_update) ==
    [task EXCEPT
        !.status = fsm.state,
        !.retries = fsm.retries,
        !.last_modified = clock,
        !.summary = MergeSummary(@, summary_update)]

ReportUpdate(task, fsm, clock, summary_update) ==
    [task EXCEPT
        !.status = fsm.state,
        !.retries = fsm.retries,
        !.last_modified = clock,
        !.worker_id = None,
        !.summary = MergeSummary(@, summary_update)]

\* _report_task_status that writes the task whatever the worker's update did.
_report_task_status_detached(tks, wks, clock, queue_id, task_id, report_status, summary_update) ==
    LET task == tks[task_id]
        fsm == ReportFSM(task, report_status)
        wr == IF report_status = "failed" /\ Truthy(task.worker_id)
              THEN _report_worker_status(tks, wks, queue_id, task.worker_id, "failed")
              ELSE Ok(TRUE, tks, wks)
    IN  IF ~fsm.ok THEN Raise("BadRequest", tks, wks)
        ELSE Ok(TRUE,
                [tks EXCEPT ![task_id] = ReportUpdate(@, fsm, clock, summary_update)],
                wr.workers)

_report_task_status(tks, wks, clock, queue_id, task_id, report_status, summary_update) ==
    LET task == tks[task_id]
        fsm == ReportFSM(task, report_status)
        wr == IF report_status = "failed" /\ Truthy(task.worker_id)
              THEN _report_worker_status(tks, wks, queue_id, task.worker_id, "failed")
              ELSE Ok(TRUE, tks, wks)
    IN  IF ~fsm.ok THEN Raise("BadRequest", tks, wks)
        ELSE IF wr.err # "ok" THEN Raise(wr.err, tks, wks)
        ELSE Ok(TRUE,
                [tks EXCEPT ![task_id] = ReportUpdate(@, fsm, clock, summary_update)],
                wr.workers)

report_task_status(tks, wks, clock, queue_id, task_id, report_status, summary_update) ==
    IF ~Found(tks, task_id, queue_id) THEN Raise("NotFound", tks, wks)
    ELSE _report_task_status(tks, wks, clock, queue_id, task_id, report_status,
                             summary_update)

\* worker_report_task_status; the first variant does not compare worker ids.
worker_report_task_status_unchecked(tks, wks, clock, queue_id, task_id, worker_id, report_status, summary_update) ==
    IF ~Found(tks, task_id, queue_id) THEN Raise("NotFound", tks, wks)
    ELSE _report_task_status(tks, wks, clock, queue_id, task_id, report_status,
                             summary_update)

worker_report_task_status(tks, wks, clock, queue_id, task_id, worker_id, report_status, summary_update) ==
    IF ~Found(tks, task_id, queue_id) THEN Raise("NotFound", tks, wks)
    ELSE IF tks[task_id].worker_id # worker_id THEN Raise("Conflict", tks, wks)
    ELSE _report_task_status(tks, wks, clock, queue_id, task_id, report_status,
                             summary_update)

\* ------------------------------------------------- update_task, cancel_task
\* sanitize_update rejects an update of a field the caller may not set.
ImmutableFields == {"_id", "queue_id", "created_at", "last_modified"}
PrivilegedFields == {"status", "retries", "password"}

UpdateRejected(update) ==
    DOMAIN update \cap (ImmutableFields \cup PrivilegedFields) # {}

\* update_task whose reset writes the status and leaves retries.
update_task_keep_retries(tks, wks, clock, queue_id, task_id, task_setting_update, reset_pending) ==
    IF UpdateRejected(task_setting_update) THEN Raise("BadRequest", tks, wks)
    ELSE IF ~Found(tks, task_id, queue_id) THEN Ok(FALSE, tks, wks)
    ELSE
    LET set1 == DictMerge(task_setting_update, [last_modified |-> clock])
        set2 == IF reset_pending THEN DictMerge(set1, [status |-> PENDING]) ELSE set1
        doc == DictMerge(tks[task_id], set2)
    IN  Ok(doc # tks[task_id], [tks EXCEPT ![task_id] = doc], wks)

update_task(tks, wks, clock, queue_id, task_id, task_setting_update, reset_pending) ==
    IF UpdateRejected(task_setting_update) THEN Raise("BadRequest", tks, wks)
    ELSE IF ~Found(tks, task_id, queue_id) THEN Ok(FALSE, tks, wks)
    ELSE
    LET set1 == DictMerge(task_setting_update, [last_modified |-> clock])
        set2 == IF reset_pending
                THEN DictMerge(set1, [status |-> PENDING, retries |-> 0])
                ELSE set1
        doc == DictMerge(tks[task_id], set2)
    IN  Ok(doc # tks[task_id], [tks EXCEPT ![task_id] = doc], wks)

\* cancel_task that also clears the task's worker_id.
cancel_task_clear_worker(tks, wks, clock, queue_id, task_id) ==
    IF ~Found(tks, task_id, queue_id) THEN Ok(FALSE, tks, wks)
    ELSE
    LET doc == [tks[task_id] EXCEPT !.status = CANCELLED, !.last_modified = clock,
                                    !.worker_id = None]
    IN  Ok(doc # tks[task_id], [tks EXCEPT ![task_id] = doc], wks)

cancel_task(tks, wks, clock, queue_id, task_id) ==
    IF ~Found(tks, task_id, queue_id) THEN Ok(FALSE, tks, wks)
    ELSE
    LET doc == [tks[task_id] EXCEPT !.status = CANCELLED, !.last_modified = clock]
    IN  Ok(doc # tks[task_id], [tks EXCEPT ![task_id] = doc], wks)

\* -------------------------------------------------------- handle_timeouts
\* The query: a RUNNING task whose heartbeat or execution timeout is over.
\* $subtract of two instants is in milliseconds, $divide by 1000 gives the
\* seconds compared with the timeout: d / 1000 > s exactly when d > s * 1000.
\* The first variant is the comparison with $gte.
HeartbeatTimedOutInclusive(doc, clock) ==
    /\ doc.last_heartbeat # None
    /\ doc.heartbeat_timeout # None
    /\ clock - doc.last_heartbeat >= doc.heartbeat_timeout * MsPerSecond

HeartbeatTimedOut(doc, clock) ==
    /\ doc.last_heartbeat # None
    /\ doc.heartbeat_timeout # None
    /\ clock - doc.last_heartbeat > doc.heartbeat_timeout * MsPerSecond

ExecutionTimedOut(doc, clock) ==
    /\ doc.task_timeout # None
    /\ doc.start_time # None
    /\ clock - doc.start_time > doc.task_timeout * MsPerSecond

TimedOut(doc, clock) ==
    /\ doc.status = RUNNING
    /\ (HeartbeatTimedOut(doc, clock) \/ ExecutionTimedOut(doc, clock))

TimeoutError == "Either heartbeat or task execution timed out"

\* The body of the loop for one task of the list: acc is the store so far
\* and the ids transitioned so far.  An error (the task's FSM or its worker's
\* report raising) is printed and the task left as it is.  The first variant
\* writes the task without worker_id.
SweepOneKeepWorker(acc, task_id, clock) ==
    LET task == acc.tasks[task_id]
        fsm == TaskFSM_fail(task.status, task.retries, task.max_retries)
        wr == IF Truthy(task.worker_id)
              THEN _report_worker_status(acc.tasks, acc.workers, task.queue_id,
                                         task.worker_id, "failed")
              ELSE Ok(TRUE, acc.tasks, acc.workers)
        doc == [task EXCEPT
                   !.status = fsm.state,
                   !.retries = fsm.retries,
                   !.last_modified = clock,
                   !.summary = DictMerge(@, [labtasker_error |-> TimeoutError])]
    IN  IF ~fsm.ok \/ wr.err # "ok" THEN acc
        ELSE [tasks |-> [acc.tasks EXCEPT ![task_id] = doc],
              workers |-> wr.workers,
              ret |-> IF doc # task THEN Append(acc.ret, task_id) ELSE acc.ret]

\* The body of the loop without the report of the worker's failure.
SweepOneSpareWorker(acc, task_id, clock) ==
    LET task == acc.tasks[task_id]
        fsm == TaskFSM_fail(task.status, task.retries, task.max_retries)
        doc == [task EXCEPT
                   !.status = fsm.state,
                   !.retries = fsm.retries,
                   !.last_modified = clock,
                   !.worker_id = None,
                   !.summary = DictMerge(@, [labtasker_error |-> TimeoutError])]
    IN  IF ~fsm.ok THEN acc
        ELSE [tasks |-> [acc.tasks EXCEPT ![task_id] = doc],
              workers |-> acc.workers,
              ret |-> IF doc # task THEN Append(acc.ret, task_id) ELSE acc.ret]

SweepOne(acc, task_id, clock) ==
    LET task == acc.tasks[task_id]
        fsm == TaskFSM_fail(task.status, task.retries, task.max_retries)
        wr == IF Truthy(task.worker_id)
              THEN _report_worker_status(acc.tasks, acc.workers, task.queue_id,
                                         task.worker_id, "failed")
              ELSE Ok(TRUE, acc.tasks, acc.workers)
        doc == [task EXCEPT
                   !.status = fsm.state,
                   !.retries = fsm.retries,
                   !.last_modified = clock,
                   !.worker_id = None,
                   !.summary = DictMerge(@, [labtasker_error |-> TimeoutError])]
    IN  IF ~fsm.ok \/ wr.err # "ok" THEN acc
        ELSE [tasks |-> [acc.tasks EXCEPT ![task_id] = doc],
              workers |-> wr.workers,
              ret |-> IF doc # task THEN Append(acc.ret, task_id) ELSE acc.ret]

RECURSIVE SweepLoop(_, _, _)
SweepLoop(acc, list, clock) ==
    IF list = <<>> THEN acc
    ELSE SweepLoop(SweepOne(acc, Head(list), clock), Tail(list), clock)

\* The orders in which find(query) without a sort may list a set of tasks.
Orders(S) ==
    {s \in [1..Cardinality(S) -> S] : \A i, j \in DOMAIN s : i # j => s[i] # s[j]}

SweepLists(tks, clock) == Orders({t \in DOMAIN tks : TimedOut(tks[t], clock)})

handle_timeouts(tks, wks, clock, list) ==
    LET acc == SweepLoop([tasks |-> tks, workers |-> wks, ret |-> <<>>], list, clock)
    IN  Ok(acc.ret, acc.tasks, acc.workers)

\* ------------------------------------------------------------------ state
VARIABLES
    queues,      \* the queues collection: queue id -> document
    tasks,       \* the tasks collection: task id -> document
    workers,     \* the workers collection: worker id -> document
    nextTask,    \* the id the next create_task hands out
    nextWorker,  \* the id the next create_worker hands out
    now,         \* get_current_time(), in milliseconds
    last,        \* the last call that returned: its operation and its error kind
    returned,    \* the value the last call returned, None when it raised
    flight,      \* per request slot, the call whose transaction is open
    in_transaction  \* per request slot, the value of the _in_transaction flag

vars == <<queues, tasks, workers, nextTask, nextWorker, now, in_transaction, last, returned, flight>>

Idle == [pc |-> "idle"]

\* What the last call that returned handed back: the operation and the error
\* kind ("ok" when it returned).
Outcome(op, err) == [op |-> op, err |-> err]

Init ==
    /\ queues = [q \in QueueIds |-> NewQueue("q1", 0)]
    /\ tasks = EmptyDict
    /\ workers = EmptyDict
    /\ nextTask = 1
    /\ nextWorker = 1
    /\ now = 0
    /\ last = Outcome("init", "ok")
    /\ returned = None
    /\ flight = [p \in Procs |-> Idle]
    /\ in_transaction = [p \in Procs |-> FALSE]

\* A commit changes the tasks `ids` and the workers `wids`: the snapshot of
\* every transaction that is open is now behind on them.
MarkDirty(ids, wids) ==
    [p \in Procs |->
        IF "dirty" \in DOMAIN flight[p]
        THEN [flight[p] EXCEPT !.dirty = @ \cup ids, !.wdirty = @ \cup wids]
        ELSE flight[p]]

\* Uncommitted writes that lock nothing.
NoLockedTasks == {}

\* The tasks and the workers that a transaction has written and not yet
\* committed.
LockedTasks == UNION {flight[p].written : p \in {o \in Procs : "written" \in DOMAIN flight[o]}}

LockedWorkers == UNION {flight[p].wwritten : p \in {o \in Procs : "wwritten" \in DOMAIN flight[o]}}

LockedQueues == UNION {flight[p].qwritten : p \in {o \in Procs : "qwritten" \in DOMAIN flight[o]}}

\* An operation run as one atomic transaction: r is what it hands back.  A
\* write to a document that another transaction has written and not yet
\* committed is a write conflict: nothing is written and the call raises
\* HTTP 500.
CommitDocs(op, r) ==
    LET ids == Changed(tasks, r.tasks)
        wids == Changed(workers, r.workers)
        conflict == ids \cap LockedTasks # {} \/ wids \cap LockedWorkers # {}
    IN  /\ tasks' = IF conflict THEN tasks ELSE r.tasks
        /\ workers' = IF conflict THEN workers ELSE r.workers
        /\ last' = Outcome(op, IF conflict THEN "InternalError" ELSE r.err)
        /\ returned' = IF conflict THEN None ELSE r.ret
        /\ flight' = IF conflict THEN flight ELSE MarkDirty(ids, wids)

\* An operation that writes tasks and workers only.
Commit(op, r) ==
    CommitDocs(op, r) /\ queues' = queues /\ in_transaction' = in_transaction

\* ---------------------------------------------------------------- actions
\* Time passes: `seconds` seconds, up to the horizon MaxTicks.
Tick(seconds) ==
    /\ now + seconds * MsPerSecond <= MaxTicks * MsPerSecond
    /\ now' = now + seconds * MsPerSecond
    /\ last' = Outcome("tick", "ok")
    /\ returned' = None
    /\ UNCHANGED <<queues, tasks, workers, nextTask, nextWorker, flight, in_transaction>>

CreateTask(queue_id, args, cmd, heartbeat_timeout, task_timeout, max_retries, priority) ==
    /\ nextTask <= MaxTasks
    /\ LET r == create_task(tasks, workers, now, nextTask, queue_id, args, cmd,
                            heartbeat_timeout, task_timeout, max_retries, priority)
       IN  /\ Commit("create_task", r)
           /\ nextTask' = IF r.err = "ok" THEN nextTask + 1 ELSE nextTask
    /\ UNCHANGED <<nextWorker, now>>

CreateWorker(queue_id, max_retries) ==
    /\ nextWorker <= MaxWorkers
    /\ Commit("create_worker",
              create_worker(tasks, workers, nextWorker, queue_id, max_retries))
    /\ nextWorker' = nextWorker + 1
    /\ UNCHANGED <<nextTask, now>>

DeleteTask(queue_id, task_id) ==
    /\ Commit("delete_task",
              delete_task(tasks, workers, queue_id, task_id))
    /\ UNCHANGED <<nextTask, nextWorker, now>>

DeleteWorker(queue_id, worker_id, cascade_update) ==
    /\ Commit("delete_worker",
              delete_worker(tasks, workers, now, queue_id, worker_id, cascade_update))
    /\ UNCHANGED <<nextTask, nextWorker, now>>

FetchTask(queue_id, worker_id, eta_max, heartbeat_timeout, start_heartbeat, required_fields, extra_filter) ==
    /\ \E pick \in FetchPicks(tasks, queue_id, required_fields, extra_filter) :
          Commit("fetch_task",
                 fetch_task(tasks, workers, now, queue_id, worker_id, eta_max,
                            heartbeat_timeout, start_heartbeat, required_fields,
                            extra_filter, pick))
    /\ UNCHANGED <<nextTask, nextWorker, now>>

RefreshTaskHeartbeat(queue_id, task_id) ==
    /\ Commit("refresh_task_heartbeat",
              refresh_task_heartbeat(tasks, workers, now, queue_id, task_id))
    /\ UNCHANGED <<nextTask, nextWorker, now>>

WorkerReportTaskStatus(queue_id, task_id, worker_id, report_status, summary_update) ==
    /\ Commit("worker_report_task_status",
              worker_report_task_status(tasks, workers, now, queue_id, task_id,
                                        worker_id, report_status, summary_update))
    /\ UNCHANGED <<nextTask, nextWorker, now>>

ReportTaskStatus(queue_id, task_id, report_status, summary_update) ==
    /\ Commit("report_task_status",
              report_task_status(tasks, workers, now, queue_id, task_id,
                                 report_status, summary_update))
    /\ UNCHANGED <<nextTask, nextWorker, now>>

UpdateTask(queue_id, task_id, task_setting_update, reset_pending) ==
    /\ Commit("update_task",
              update_task(tasks, workers, now, queue_id, task_id,
                          task_setting_update, reset_pending))
    /\ UNCHANGED <<nextTask, nextWorker, now>>

CancelTask(queue_id, task_id) ==
    /\ Commit("cancel_task",
              cancel_task(tasks, workers, now, queue_id, task_id))
    /\ UNCHANGED <<nextTask, nextWorker, now>>

ReportWorkerStatus(queue_id, worker_id, report_status) ==
    /\ Commit("report_worker_status",
              report_worker_status(tasks, workers, queue_id, worker_id, report_status))
    /\ UNCHANGED <<nextTask, nextWorker, now>>

HandleTimeouts ==
    /\ \E list \in SweepLists(tasks, now) :
          Commit("handle_timeouts",
                 handle_timeouts(tasks, workers, now, list))
    /\ UNCHANGED <<nextTask, nextWorker, now>>

\* ------------------------------------------- fetch_task in two steps
\* DBService.transaction: a write to a document that another transaction has
\* changed since this one's snapshot raises a write conflict; the context
\* manager aborts the transaction and raises HTTP 500 in its place.  The first
\* variant is a store that lets the later write win.
NeverConflicts(written, dirty) == FALSE

WriteConflict(written, dirty) == written \cap dirty # {}

\* The transaction opens: the worker is read and the cursor is opened on the
\* store as it is now.  `peers` are the calls whose transactions are open.
FetchBegin(p, queue_id, worker_id, eta_max, heartbeat_timeout, start_heartbeat, required_fields, extra_filter) ==
    /\ flight[p].pc = "idle"
    /\ flight' = [flight EXCEPT ![p] =
          [pc |-> "open", queue_id |-> queue_id, worker_id |-> worker_id,
           eta_max |-> eta_max, heartbeat_timeout |-> heartbeat_timeout,
           start_heartbeat |-> start_heartbeat,
           required_fields |-> required_fields, extra_filter |-> extra_filter,
           tasks |-> tasks, workers |-> workers, clock |-> now, dirty |-> {},
           wdirty |-> {}, token |-> in_transaction[p],
           peers |-> {o \in Procs : flight[o].pc = "open"}]]
    /\ in_transaction' = [in_transaction EXCEPT ![p] = TRUE]
    /\ UNCHANGED <<queues, tasks, workers, nextTask, nextWorker, now, last, returned>>

\* The loop runs on the snapshot and the transaction commits, or aborts on a
\* write conflict.  `seen` are the tasks the snapshot's cursor could give first.
FetchCommit(p) ==
    /\ flight[p].pc = "open"
    /\ LET f == flight[p]
       IN  \E pick \in FetchPicks(f.tasks, f.queue_id, f.required_fields, f.extra_filter) :
           LET r == fetch_task(f.tasks, f.workers, f.clock, f.queue_id, f.worker_id,
                               f.eta_max, f.heartbeat_timeout, f.start_heartbeat,
                               f.required_fields, f.extra_filter, pick)
               written == Changed(f.tasks, r.tasks)
               conflict == WriteConflict(written, f.dirty \cup LockedTasks)
               err == IF conflict THEN "InternalError" ELSE r.err
               ret == IF conflict THEN None ELSE r.ret
               applied == IF conflict THEN {} ELSE written
           IN  /\ tasks' = [t \in DOMAIN tasks \cup applied |->
                              IF t \in applied THEN r.tasks[t] ELSE tasks[t]]
               /\ flight' = [o \in Procs |->
                     IF o = p
                       THEN [pc |-> "done", worker_id |-> f.worker_id,
                             err |-> err, ret |-> ret, peers |-> f.peers,
                             seen |-> IF r.err = "ok"
                                      THEN FetchPicks(f.tasks, f.queue_id,
                                               f.required_fields, f.extra_filter)
                                      ELSE {}]
                     ELSE IF "dirty" \in DOMAIN flight[o]
                       THEN [flight[o] EXCEPT !.dirty = @ \cup applied]
                     ELSE flight[o]]
               /\ last' = Outcome("fetch_task", err)
               /\ returned' = ret
    /\ in_transaction' = [in_transaction EXCEPT ![p] = flight[p].token]
    /\ UNCHANGED <<queues, workers, nextTask, nextWorker, now>>

\* ------------------------------------------------------------- queues
\* The uuid of a new queue is an id that no document carries: the least one.
FreshQueueIds == {q \in AllQueueIds : /\ q \notin DOMAIN queues
                                       /\ \A t \in DOMAIN tasks : tasks[t].queue_id # q
                                       /\ \A w \in DOMAIN workers : workers[w].queue_id # q}

CreateQueue(queue_name) ==
    /\ FreshQueueIds # {}
    /\ LET id == CHOOSE q \in FreshQueueIds : \A o \in FreshQueueIds : q <= o
           r == create_queue(queues, tasks, workers, now, id, queue_name)
       IN  /\ CommitDocs("create_queue", r)
           /\ queues' = r.queues
    /\ UNCHANGED <<nextTask, nextWorker, now, in_transaction>>

DeleteQueue(queue_id, cascade_delete) ==
    /\ LET r == delete_queue(queues, tasks, workers, queue_id, cascade_delete)
           conflict == \/ Changed(tasks, r.tasks) \cap LockedTasks # {}
                       \/ Changed(workers, r.workers) \cap LockedWorkers # {}
       IN  /\ CommitDocs("delete_queue", r)
           /\ queues' = IF conflict THEN queues ELSE r.queues
    /\ UNCHANGED <<nextTask, nextWorker, now, in_transaction>>

\* A collection after the documents `ids` of it are written as in `new`.
Merge(cur, new, ids) ==
    [k \in (DOMAIN cur \ ids) \cup (ids \cap DOMAIN new) |->
        IF k \in ids THEN new[k] ELSE cur[k]]

\* ------------------------------------ create_queue and update_queue in steps
\* The names a request may ask for: those of QueueNames, one more, and none.
NewNames == QueueNames \cup {"q3", ""}

\* The names that uncommitted writes of open transactions have put into the
\* unique index on queue_name.
PendingNames == {flight[o].name : o \in {p \in Procs : flight[p].pc = "pending"}}

\* A call that ends at once with an error: nothing is written, the flag is
\* set and reset inside the step.
QEnd(p, op, err) ==
    /\ last' = Outcome(op, err)
    /\ returned' = None
    /\ UNCHANGED <<queues, flight, in_transaction>>

\* create_queue up to its insert_one, the first statement of its
\* transaction.  A name that a committed queue carries is a duplicate key
\* (409); a name that an uncommitted write of another transaction has put
\* into the index, or takes out of it, is a write conflict, which is not an
\* HTTPException (500).
CreateBegin(p, queue_name) ==
    /\ flight[p].pc = "idle"
    /\ LET free == {q \in FreshQueueIds : q \notin LockedQueues}
           id == CHOOSE q \in free : \A o \in free : q <= o
           r == create_queue(queues, tasks, workers, now, id, queue_name)
           held == {q \in DOMAIN queues : queues[q].queue_name = queue_name}
       IN  /\ free # {}
           /\ IF r.err # "ok"
              THEN \/ QEnd(p, "create_queue", r.err)
                   \/ /\ held \cap LockedQueues # {}
                      /\ QEnd(p, "create_queue", "InternalError")
              ELSE IF queue_name \in PendingNames
              THEN QEnd(p, "create_queue", "InternalError")
              ELSE /\ flight' = [flight EXCEPT ![p] =
                         [pc |-> "pending", op |-> "create_queue", name |-> queue_name,
                          qwritten |-> {id}, r |-> r, token |-> in_transaction[p]]]
                   /\ in_transaction' = [in_transaction EXCEPT ![p] = TRUE]
                   /\ UNCHANGED <<queues, last, returned>>
    /\ UNCHANGED <<tasks, workers, nextTask, nextWorker, now>>

\* update_queue up to its look-up of the new name, the first statement of
\* its transaction: the snapshot is the store as it is now.
RenameBegin(p, queue_id, new_queue_name) ==
    /\ flight[p].pc = "idle"
    /\ queue_id \in DOMAIN queues
    /\ LET r == update_queue(queues, tasks, workers, now, queue_id, new_queue_name)
       IN  IF r.err # "ok"
           THEN QEnd(p, "update_queue", r.err)
           ELSE /\ flight' = [flight EXCEPT ![p] =
                      [pc |-> "checked", op |-> "update_queue", name |-> new_queue_name,
                       queue_id |-> queue_id, r |-> r, base |-> queues, qdirty |-> {},
                       token |-> in_transaction[p]]]
                /\ in_transaction' = [in_transaction EXCEPT ![p] = TRUE]
                /\ UNCHANGED <<queues, last, returned>>
    /\ UNCHANGED <<tasks, workers, nextTask, nextWorker, now>>

\* update_one of update_queue.  The queue's document changed or held by
\* another transaction is a write conflict; a new name that is in the unique
\* index by now, committed after the snapshot or uncommitted, is a write
\* conflict or a duplicate key.  update_queue catches neither: 500.
RenameWrite(p) ==
    /\ flight[p].pc = "checked"
    /\ LET f == flight[p]
           clash == /\ f.name # ""
                    /\ \/ f.name \in PendingNames
                       \/ \E q \in DOMAIN queues : queues[q].queue_name = f.name
           written == Changed(f.base, f.r.queues)
           conflict == WriteConflict(written, f.qdirty \cup LockedQueues)
       IN  IF clash \/ conflict
           THEN /\ flight' = [flight EXCEPT ![p] = Idle]
                /\ in_transaction' = [in_transaction EXCEPT ![p] = f.token]
                /\ last' = Outcome("update_queue", "InternalError")
                /\ returned' = None
           ELSE /\ flight' = [flight EXCEPT ![p] =
                      [pc |-> "pending", op |-> "update_queue", name |-> f.name,
                       qwritten |-> written, r |-> f.r, token |-> f.token]]
                /\ UNCHANGED <<in_transaction, last, returned>>
    /\ UNCHANGED <<queues, tasks, workers, nextTask, nextWorker, now>>

\* The transaction of create_queue or update_queue commits.
QCommit(p) ==
    /\ flight[p].pc = "pending"
    /\ LET f == flight[p]
       IN  /\ queues' = Merge(queues, f.r.queues, f.qwritten)
           /\ flight' = [o \in Procs |->
                 IF o = p THEN Idle
                 ELSE IF "qdirty" \in DOMAIN flight[o]
                   THEN [flight[o] EXCEPT !.qdirty = @ \cup f.qwritten]
                 ELSE flight[o]]
           /\ in_transaction' = [in_transaction EXCEPT ![p] = f.token]
           /\ last' = Outcome(f.op, "ok")
           /\ returned' = f.r.ret
    /\ UNCHANGED <<tasks, workers, nextTask, nextWorker, now>>

\* ------------------------------------------------ DBService.transaction
\* The errors that are HTTPExceptions; "Untyped" is any other exception.
TypedErrors == {"BadRequest", "NotFound", "Conflict", "Forbidden", "InternalError", "NestedTransaction"}

\* What the except clause of transaction() raises for an exception of the
\* body: an HTTPException as it is, anything else as HTTP 500.
Surfaced(err) == IF err \in TypedErrors THEN err ELSE "InternalError"

\* The finally clause with set(False) in place of reset(token).
ResetFalse(tokens) == FALSE

\* _in_transaction.reset(token): the value the flag had before the entry
\* that made the token.
ResetToken(tokens) == tokens[Len(tokens)]

\* A helper that opens a transaction of its own.
OpensTransactionAlways(helper) == TRUE

\* Whether a helper that an operation calls inside its transaction enters
\* transaction() itself: _report_task_status and _report_worker_status take
\* the caller's session and do not.
OpensTransaction(helper) == FALSE

\* Whether a write of an operation to a collection is made with
\* session=session: every write is.
InSession(op, coll) == TRUE

\* The calls of the requests: a failed report for a task, a cascading
\* delete_queue, and transaction() used directly.
OpCalls == ({"report_task_status"} \X QueueIds \X TaskIds) \cup ({"delete_queue"} \X QueueIds \X {0})

BareCall == <<"transaction", 0, 0>>

CallResult(call) ==
    IF call[1] = "report_task_status"
    THEN WithQueues(report_task_status(tasks, workers, now, call[2], call[3], "failed",
                                       EmptyDict), queues)
    ELSE IF call[1] = "delete_queue"
    THEN delete_queue(queues, tasks, workers, call[2], TRUE)
    ELSE WithQueues(Ok(None, tasks, workers), queues)

\* The collections a call writes, in the order of its code.
CallWrites(call, r) ==
    IF r.err # "ok" THEN <<>>
    ELSE IF call[1] = "report_task_status"
    THEN (IF Changed(workers, r.workers) # {} THEN <<"workers">> ELSE <<>>) \o <<"tasks">>
    ELSE IF call[1] = "delete_queue" THEN <<"queues", "tasks", "workers">>
    ELSE <<>>

Raising(f, err, where) ==
    [pc |-> "raising", op |-> f.op, tokens |-> f.tokens, err |-> err, where |-> where,
     base |-> f.base, written |-> f.written, wwritten |-> f.wwritten,
     qwritten |-> f.qwritten]

\* Lines 77-85: the entry to transaction().  With the flag set and no
\* allow_nesting it raises HTTP 500 before anything else; otherwise the flag
\* is set and the token keeps its old value.  A public operation enters with
\* allow_nesting = False.
Enter(p, call, allow_nesting) ==
    /\ \/ /\ flight[p].pc = "idle"
          /\ IF in_transaction[p] /\ ~allow_nesting
             THEN /\ last' = Outcome(call[1], "NestedTransaction")
                  /\ returned' = None
                  /\ UNCHANGED <<flight, in_transaction>>
             ELSE LET r == CallResult(call)
                  IN  /\ flight' = [flight EXCEPT ![p] =
                            [pc |-> "body", op |-> call[1],
                             tokens |-> <<in_transaction[p]>>, r |-> r,
                             steps |-> CallWrites(call, r),
                             base |-> [queues |-> queues, tasks |-> tasks,
                                       workers |-> workers],
                             written |-> {}, wwritten |-> {}, qwritten |-> {},
                             dirty |-> {}, wdirty |-> {}, qdirty |-> {}]]
                      /\ in_transaction' = [in_transaction EXCEPT ![p] = TRUE]
                      /\ UNCHANGED <<last, returned>>
       \/ /\ flight[p].pc = "body"
          /\ Len(flight[p].tokens) < MaxDepth
          /\ IF in_transaction[p] /\ ~allow_nesting
             THEN /\ flight' = [flight EXCEPT ![p] =
                        Raising(flight[p], "NestedTransaction", "caller")]
                  /\ UNCHANGED in_transaction
             ELSE /\ flight' = [flight EXCEPT ![p].tokens = Append(@, in_transaction[p])]
                  /\ in_transaction' = [in_transaction EXCEPT ![p] = TRUE]
          /\ UNCHANGED <<last, returned>>
    /\ UNCHANGED <<queues, tasks, workers, nextTask, nextWorker, now>>

OpBegin(p, call) == Enter(p, call, FALSE)

TxOpen(p, allow_nesting) == Enter(p, BareCall, allow_nesting)

\* Lines 86-87 fail: the session cannot be opened.  The exception is raised
\* outside the inner try: the finally clause resets the flag and the
\* exception leaves transaction() as it is.
TxOpenFails(p) ==
    /\ \/ /\ flight[p].pc = "idle"
          /\ ~in_transaction[p]
          /\ last' = Outcome("transaction", "Untyped")
          /\ returned' = None
          /\ in_transaction' = [in_transaction EXCEPT ![p] = ResetToken(<<in_transaction[p]>>)]
          /\ UNCHANGED flight
       \/ /\ flight[p].pc = "body"
          /\ Len(flight[p].tokens) < MaxDepth
          /\ flight' = [flight EXCEPT ![p] = Raising(flight[p], "Untyped", "caller")]
          /\ in_transaction' = [in_transaction EXCEPT ![p] = ResetToken(<<in_transaction[p]>>)]
          /\ UNCHANGED <<last, returned>>
    /\ UNCHANGED <<queues, tasks, workers, nextTask, nextWorker, now>>

\* The body of the operation writes the next collection.  A helper that
\* entered transaction() would be refused; a write to a document that another
\* transaction has changed or holds is a write conflict, an exception that
\* is not an HTTPException.  A write made without the session would be in
\* the store at once.
TxStep(p) ==
    /\ flight[p].pc = "body"
    /\ Len(flight[p].tokens) = 1
    /\ flight[p].r.err = "ok"
    /\ flight[p].steps # <<>>
    /\ LET f == flight[p]
           coll == Head(f.steps)
           ids == Changed(f.base[coll], f.r[coll])
           nests == /\ f.op = "report_task_status"
                    /\ OpensTransaction(IF coll = "workers" THEN "_report_worker_status"
                                        ELSE "_report_task_status")
           taken == IF coll = "tasks" THEN f.dirty \cup (LockedTasks \ f.written)
                    ELSE IF coll = "workers" THEN f.wdirty \cup (LockedWorkers \ f.wwritten)
                    ELSE f.qdirty \cup (LockedQueues \ f.qwritten)
           ok == ~nests /\ ~WriteConflict(ids, taken)
           direct == ok /\ ~InSession(f.op, coll)
       IN  /\ flight' = [flight EXCEPT ![p] =
                 IF nests THEN Raising(f, "NestedTransaction", "helper")
                 ELSE IF ~ok THEN Raising(f, "Untyped", "store")
                 ELSE [f EXCEPT !.steps = Tail(@),
                                !.written = IF coll = "tasks" THEN ids ELSE @,
                                !.wwritten = IF coll = "workers" THEN ids ELSE @,
                                !.qwritten = IF coll = "queues" THEN ids ELSE @]]
           /\ tasks' = IF direct /\ coll = "tasks" THEN Merge(tasks, f.r.tasks, ids)
                       ELSE tasks
           /\ workers' = IF direct /\ coll = "workers"
                         THEN Merge(workers, f.r.workers, ids) ELSE workers
           /\ queues' = IF direct /\ coll = "queues"
                        THEN Merge(queues, f.r.queues, ids) ELSE queues
    /\ UNCHANGED <<nextTask, nextWorker, now, in_transaction, last, returned>>

\* The operation raises its own HTTPException.
TxRaise(p) ==
    /\ flight[p].pc = "body"
    /\ Len(flight[p].tokens) = 1
    /\ flight[p].r.err # "ok"
    /\ flight' = [flight EXCEPT ![p] = Raising(flight[p], flight[p].r.err, "operation")]
    /\ UNCHANGED <<queues, tasks, workers, nextTask, nextWorker, now, in_transaction, last, returned>>

\* The store fails at any point of the body or at the commit: an exception
\* that is not an HTTPException.
TxFault(p) ==
    /\ flight[p].pc = "body"
    /\ flight' = [flight EXCEPT ![p] = Raising(flight[p], "Untyped", "store")]
    /\ UNCHANGED <<queues, tasks, workers, nextTask, nextWorker, now, in_transaction, last, returned>>

\* Lines 93-102 for an exception: the transaction that encloses the raise
\* is aborted, the exception goes on as it is when it is an HTTPException and
\* as HTTP 500 when it is not, and the finally clause resets the flag.
TxUnwind(p) ==
    /\ flight[p].pc = "raising"
    /\ LET f == flight[p]
           err == Surfaced(f.err)
           outer == SubSeq(f.tokens, 1, Len(f.tokens) - 1)
       IN  /\ in_transaction' = [in_transaction EXCEPT ![p] = ResetToken(f.tokens)]
           /\ IF outer = <<>>
              THEN /\ flight' = [flight EXCEPT ![p] = Idle]
                   /\ last' = Outcome(f.op, err)
                   /\ returned' = None
              ELSE /\ flight' = [flight EXCEPT ![p] = [f EXCEPT !.tokens = outer,
                                                                !.err = err]]
                   /\ UNCHANGED <<last, returned>>
    /\ UNCHANGED <<queues, tasks, workers, nextTask, nextWorker, now>>

\* Lines 90-91 and 102 for an inner transaction that returns: it commits
\* (it has written nothing) and the flag is reset.
TxLeave(p) ==
    /\ flight[p].pc = "body"
    /\ Len(flight[p].tokens) > 1
    /\ in_transaction' = [in_transaction EXCEPT ![p] = ResetToken(flight[p].tokens)]
    /\ flight' = [flight EXCEPT ![p].tokens = SubSeq(@, 1, Len(@) - 1)]
    /\ UNCHANGED <<queues, tasks, workers, nextTask, nextWorker, now, last, returned>>

\* Lines 90-91 and 102 for the operation's transaction: the writes of the
\* session become the store's and the flag is reset.
TxCommit(p) ==
    /\ flight[p].pc = "body"
    /\ Len(flight[p].tokens) = 1
    /\ flight[p].r.err = "ok"
    /\ flight[p].steps = <<>>
    /\ LET f == flight[p]
       IN  /\ tasks' = Merge(tasks, f.r.tasks, f.written)
           /\ workers' = Merge(workers, f.r.workers, f.wwritten)
           /\ queues' = Merge(queues, f.r.queues, f.qwritten)
           /\ flight' = [o \in Procs |->
                 IF o = p THEN Idle
                 ELSE IF "qdirty" \in DOMAIN flight[o]
                   THEN [flight[o] EXCEPT !.dirty = @ \cup f.written,
                                          !.wdirty = @ \cup f.wwritten,
                                          !.qdirty = @ \cup f.qwritten]
                 ELSE IF "dirty" \in DOMAIN flight[o]
                   THEN [flight[o] EXCEPT !.dirty = @ \cup f.written,
                                          !.wdirty = @ \cup f.wwritten]
                 ELSE flight[o]]
           /\ in_transaction' = [in_transaction EXCEPT ![p] = ResetToken(f.tokens)]
           /\ last' = Outcome(f.op, "ok")
           /\ returned' = f.r.ret
    /\ UNCHANGED <<nextTask, nextWorker, now>>

\* Line 91 fails: commit_transaction raises, the except clause calls
\* abort_transaction on a transaction whose commit was already asked for and
\* that call raises in the handler.  The exception of the handler leaves
\* transaction() as it is, past the wrapping of lines 95-100; the finally
\* clause resets the flag.  Nothing of the session is applied.
TxCommitFails(p) ==
    /\ flight[p].pc = "body"
    /\ \/ Len(flight[p].tokens) > 1
       \/ flight[p].r.err = "ok" /\ flight[p].steps = <<>>
    /\ LET f == flight[p]
           outer == SubSeq(f.tokens, 1, Len(f.tokens) - 1)
       IN  /\ in_transaction' = [in_transaction EXCEPT ![p] = ResetToken(f.tokens)]
           /\ IF outer = <<>>
              THEN /\ flight' = [flight EXCEPT ![p] = Idle]
                   /\ last' = Outcome(f.op, "Untyped")
                   /\ returned' = None
              ELSE /\ flight' = [flight EXCEPT ![p] =
                         Raising([f EXCEPT !.tokens = outer], "Untyped", "store")]
                   /\ UNCHANGED <<last, returned>>
    /\ UNCHANGED <<queues, tasks, workers, nextTask, nextWorker, now>>

\* ---------------------------------------------- handle_timeouts in steps
\* The transaction opens: now is read and find(query) runs on the store as
\* it is.
SweepBegin(p) ==
    /\ flight[p].pc = "idle"
    /\ flight' = [flight EXCEPT ![p] =
          [pc |-> "sweeping", tasks |-> tasks, workers |-> workers, clock |-> now,
           dirty |-> {}, wdirty |-> {}, token |-> in_transaction[p]]]
    /\ in_transaction' = [in_transaction EXCEPT ![p] = TRUE]
    /\ UNCHANGED <<queues, tasks, workers, nextTask, nextWorker, now, last, returned>>

\* The loop writes the tasks and workers of the list.  A write to a document
\* that another transaction has changed since the snapshot, or has written
\* and not committed, is a write conflict: the loop's except prints it, the
\* store has aborted the transaction, and the commit raises HTTP 500.
SweepWrite(p) ==
    /\ flight[p].pc = "sweeping"
    /\ LET f == flight[p]
       IN  \E list \in SweepLists(f.tasks, f.clock) :
           LET r == handle_timeouts(f.tasks, f.workers, f.clock, list)
               written == Changed(f.tasks, r.tasks)
               wwritten == Changed(f.workers, r.workers)
               conflict == \/ WriteConflict(written, f.dirty \cup LockedTasks)
                           \/ WriteConflict(wwritten, f.wdirty \cup LockedWorkers)
           IN  IF conflict
               THEN /\ flight' = [flight EXCEPT ![p] = Idle]
                    /\ in_transaction' = [in_transaction EXCEPT ![p] = f.token]
                    /\ last' = Outcome("handle_timeouts", "InternalError")
                    /\ returned' = None
               ELSE /\ flight' = [flight EXCEPT ![p] =
                          [pc |-> "written", tasks |-> r.tasks, workers |-> r.workers,
                           ret |-> r.ret, clock |-> f.clock, token |-> f.token,
                           written |-> written, wwritten |-> wwritten]]
                    /\ UNCHANGED <<last, returned, in_transaction>>
    /\ UNCHANGED <<queues, tasks, workers, nextTask, nextWorker, now>>

\* The transaction commits: its writes become the store's.
SweepCommit(p) ==
    /\ flight[p].pc = "written"
    /\ LET f == flight[p]
       IN  /\ tasks' = [t \in DOMAIN tasks |->
                          IF t \in f.written THEN f.tasks[t] ELSE tasks[t]]
           /\ workers' = [w \in DOMAIN workers |->
                            IF w \in f.wwritten THEN f.workers[w] ELSE workers[w]]
           /\ flight' = [o \in Procs |->
                 IF o = p THEN Idle
                 ELSE IF "dirty" \in DOMAIN flight[o]
                   THEN [flight[o] EXCEPT !.dirty = @ \cup f.written,
                                          !.wdirty = @ \cup f.wwritten]
                 ELSE flight[o]]
           /\ last' = Outcome("handle_timeouts", "ok")
           /\ returned' = f.ret
    /\ in_transaction' = [in_transaction EXCEPT ![p] = flight[p].token]
    /\ UNCHANGED <<queues, nextTask, nextWorker, now>>

\* --------------------------------------------------------- specifications
\* The inputs the callers draw from.
RetryLimits == 0..MaxRetries
ReportStatuses == {"success", "failed", "cancelled"}
AnyReportStatus == ReportStatuses \cup {"paused"}
NoEta == <<>>
SomeArgs == [n |-> 1]

\* Spec: the life of the tasks and workers of one queue under the operations
\* that change a task's status or worker_id, each call one transaction, at
\* one instant.
Next ==
    \/ \E q \in QueueIds :
          CreateTask(q, SomeArgs, "", None, None, MaxRetries, PriorityMedium)
    \/ \E q \in QueueIds : CreateWorker(q, MaxRetries)
    \/ \E q \in QueueIds, w \in WorkerIds \cup {None} :
          FetchTask(q, w, NoEta, None, TRUE, EmptyDict, EmptyDict)
    \/ \E q \in QueueIds, t \in TaskIds, rs \in ReportStatuses :
          ReportTaskStatus(q, t, rs, EmptyDict)
    \/ \E q \in QueueIds, t \in TaskIds, w \in WorkerIds, rs \in AnyReportStatus :
          WorkerReportTaskStatus(q, t, w, rs, EmptyDict)
    \/ \E q \in QueueIds, t \in TaskIds, reset \in BOOLEAN :
          UpdateTask(q, t, EmptyDict, reset)
    \/ \E q \in QueueIds, t \in TaskIds : CancelTask(q, t)
    \/ \E q \in QueueIds, w \in WorkerIds, c \in BOOLEAN : DeleteWorker(q, w, c)

Spec == Init /\ [][Next]_vars

\* SpecRetry: tasks that are fetched, fail and time out, and nothing else.
NextRetry ==
    \/ Tick(MaxTicks)
    \/ \E q \in QueueIds, m \in RetryLimits :
          CreateTask(q, SomeArgs, "", 1, None, m, PriorityMedium)
    \/ \E q \in QueueIds, m \in RetryLimits : CreateWorker(q, m)
    \/ \E q \in QueueIds, w \in WorkerIds \cup {None} :
          FetchTask(q, w, NoEta, None, TRUE, EmptyDict, EmptyDict)
    \/ \E q \in QueueIds, t \in TaskIds : ReportTaskStatus(q, t, "failed", EmptyDict)
    \/ \E q \in QueueIds, t \in TaskIds, w \in WorkerIds :
          WorkerReportTaskStatus(q, t, w, "failed", EmptyDict)
    \/ HandleTimeouts

SpecRetry == Init /\ [][NextRetry]_vars

\* SpecSched: tasks of two priorities created and touched at different
\* instants, and fetched with no filter.
Priorities == {PriorityMedium, PriorityHigh}

NextSched ==
    \/ Tick(1)
    \/ \E q \in QueueIds, pr \in Priorities :
          CreateTask(q, SomeArgs, "", None, None, MaxRetries, pr)
    \/ \E q \in QueueIds : FetchTask(q, None, NoEta, None, TRUE, EmptyDict, EmptyDict)
    \/ \E q \in QueueIds, t \in TaskIds : UpdateTask(q, t, EmptyDict, FALSE)
    \/ \E q \in QueueIds, t \in TaskIds, rs \in {"success", "failed"} :
          ReportTaskStatus(q, t, rs, EmptyDict)

SpecSched == Init /\ [][NextSched]_vars

\* SpecSweep: tasks with a heartbeat timeout, an execution timeout or none,
\* fetched with and without a heartbeat, while time passes second by second;
\* workers that fail with their tasks or are deleted while they hold one.
TimeoutChoices == {<<1, None>>, <<None, 1>>, <<None, None>>}

NextSweep ==
    \/ Tick(1)
    \/ \E q \in QueueIds, to \in TimeoutChoices :
          CreateTask(q, SomeArgs, "", to[1], to[2], MaxRetries, PriorityMedium)
    \/ \E q \in QueueIds : CreateWorker(q, 0)
    \/ \E q \in QueueIds, w \in WorkerIds \cup {None}, sh \in BOOLEAN :
          FetchTask(q, w, NoEta, None, sh, EmptyDict, EmptyDict)
    \/ \E q \in QueueIds, t \in TaskIds : RefreshTaskHeartbeat(q, t)
    \/ \E q \in QueueIds, w \in WorkerIds : DeleteWorker(q, w, FALSE)
    \/ HandleTimeouts

SpecSweep == Init /\ [][NextSweep]_vars

\* SpecLate: workers that fetch tasks with a heartbeat timeout, lose them to
\* the sweep, and report and send heartbeats for them afterwards.  Time passes
\* in one step to the horizon, which is past the timeout.
NextLate ==
    \/ Tick(MaxTicks)
    \/ \E q \in QueueIds :
          CreateTask(q, SomeArgs, "", 1, None, MaxRetries, PriorityMedium)
    \/ \E q \in QueueIds : CreateWorker(q, MaxRetries)
    \/ \E q \in QueueIds, w \in WorkerIds :
          FetchTask(q, w, NoEta, None, TRUE, EmptyDict, EmptyDict)
    \/ \E q \in QueueIds, t \in TaskIds, w \in WorkerIds, rs \in ReportStatuses :
          WorkerReportTaskStatus(q, t, w, rs, EmptyDict)
    \/ \E q \in QueueIds, t \in TaskIds : RefreshTaskHeartbeat(q, t)
    \/ HandleTimeouts

SpecLate == Init /\ [][NextLate]_vars

ArgsChoices == {[n |-> 1], [n |-> 2]}

\* SpecGate: workers are suspended, crashed by failures, activated and
\* deleted, and fetch_task is called for every worker id, with a heartbeat
\* or with an eta_max and none.
WorkerReports == {"active", "suspended", "failed"}
FetchCalls == {<<NoEta, TRUE>>, <<<<1, "h">>, FALSE>>}

NextGate ==
    \/ \E q \in QueueIds :
          CreateTask(q, SomeArgs, "", None, None, MaxRetries, PriorityMedium)
    \/ \E q \in QueueIds, m \in RetryLimits : CreateWorker(q, m)
    \/ \E q \in QueueIds, w \in WorkerIds, call \in FetchCalls :
          FetchTask(q, w, call[1], None, call[2], EmptyDict, EmptyDict)
    \/ \E q \in QueueIds, t \in TaskIds : ReportTaskStatus(q, t, "failed", EmptyDict)
    \/ \E q \in QueueIds, w \in WorkerIds, rs \in WorkerReports :
          ReportWorkerStatus(q, w, rs)
    \/ \E q \in QueueIds, w \in WorkerIds : DeleteWorker(q, w, TRUE)

SpecGate == Init /\ [][NextGate]_vars

\* SpecHeart: tasks with and without a heartbeat timeout are fetched with
\* start_heartbeat, or with an eta_max and without start_heartbeat, and are
\* heartbeated, failed and swept while time passes.
HeartbeatTimeouts == {None, 1}

NextHeart ==
    \/ Tick(MaxTicks)
    \/ \E q \in QueueIds, h \in HeartbeatTimeouts :
          CreateTask(q, SomeArgs, "", h, None, MaxRetries, PriorityMedium)
    \/ \E q \in QueueIds, h \in HeartbeatTimeouts, call \in FetchCalls :
          FetchTask(q, None, call[1], h, call[2], EmptyDict, EmptyDict)
    \/ \E q \in QueueIds, t \in TaskIds : RefreshTaskHeartbeat(q, t)
    \/ \E q \in QueueIds, t \in TaskIds : ReportTaskStatus(q, t, "failed", EmptyDict)
    \/ HandleTimeouts

SpecHeart == Init /\ [][NextHeart]_vars

\* SpecEta: tasks with a heartbeat timeout of one second are fetched with and
\* without a heartbeat and with and without an eta_max, by callers that name
\* no worker, a worker of the queue, or a worker that does not exist; time
\* passes, heartbeats arrive, workers are suspended and sweeps run.
EtaChoices == {NoEta, <<0, "s">>, <<1, "s">>, <<1, "m">>}

NextEta ==
    \/ Tick(MaxTicks)
    \/ \E q \in QueueIds :
          CreateTask(q, SomeArgs, "", 1, None, MaxRetries, PriorityMedium)
    \/ \E q \in QueueIds : nextWorker = 1 /\ CreateWorker(q, MaxRetries)
    \/ \E q \in QueueIds, w \in {None, 1, MaxWorkers}, eta \in EtaChoices, sh \in BOOLEAN :
          FetchTask(q, w, eta, None, sh, EmptyDict, EmptyDict)
    \/ \E q \in QueueIds, t \in TaskIds : RefreshTaskHeartbeat(q, t)
    \/ \E q \in QueueIds, w \in WorkerIds : ReportWorkerStatus(q, w, "suspended")
    \/ HandleTimeouts

SpecEta == Init /\ [][NextEta]_vars

\* SpecStuck: tasks with a heartbeat timeout of one second are fetched by
\* workers that are then suspended, failed or deleted without cascade, time
\* passes and the sweep is called again and again: handle_timeouts is a
\* periodic job, so a sweep that would change the store is eventually run.
NextStuck ==
    \/ Tick(MaxTicks)
    \/ \E q \in QueueIds :
          CreateTask(q, SomeArgs, "", 1, None, MaxRetries, PriorityMedium)
    \/ \E q \in QueueIds : CreateWorker(q, 0)
    \/ \E q \in QueueIds, w \in WorkerIds :
          FetchTask(q, w, NoEta, None, TRUE, EmptyDict, EmptyDict)
    \/ \E q \in QueueIds, w \in WorkerIds : ReportWorkerStatus(q, w, "suspended")
    \/ \E q \in QueueIds, w \in WorkerIds : DeleteWorker(q, w, FALSE)
    \/ HandleTimeouts

SpecStuck == Init /\ [][NextStuck]_vars /\ WF_vars(HandleTimeouts)

\* SpecCross: two queues from the start.  Tasks are created, fetched,
\* reported failed and updated, workers are created and deleted, and queues
\* are deleted, each call made for either queue with every task id and
\* worker id: a call for one queue is given the ids of the other queue's task
\* and worker, an extra filter that names the other queue, and an update that
\* binds a task to the other queue's worker.  The first task and the first
\* worker are of queue 1, the second of either queue (the queue ids are
\* interchangeable); max_retries is 0, so one failure ends a task and a worker.
CrossFilters == {EmptyDict} \cup {[queue_id |-> q] : q \in AllQueueIds}
CrossUpdates == {EmptyDict} \cup {[worker_id |-> w] : w \in WorkerIds}

InitCross ==
    /\ queues = [q \in AllQueueIds |-> NewQueue(IF q = 1 THEN "q1" ELSE "q2", 0)]
    /\ tasks = EmptyDict
    /\ workers = EmptyDict
    /\ nextTask = 1
    /\ nextWorker = 1
    /\ now = 0
    /\ last = Outcome("init", "ok")
    /\ returned = None
    /\ flight = [p \in Procs |-> Idle]
    /\ in_transaction = [p \in Procs |-> FALSE]

NextCross ==
    \/ \E q \in AllQueueIds :
          /\ q <= nextTask
          /\ CreateTask(q, SomeArgs, "", None, None, 0, PriorityMedium)
    \/ \E q \in AllQueueIds : q <= nextWorker /\ CreateWorker(q, 0)
    \/ \E q \in AllQueueIds, w \in WorkerIds, ef \in CrossFilters :
          FetchTask(q, w, NoEta, None, TRUE, EmptyDict, ef)
    \/ \E q \in AllQueueIds, t \in TaskIds, w \in WorkerIds :
          WorkerReportTaskStatus(q, t, w, "failed", EmptyDict)
    \/ \E q \in AllQueueIds, t \in TaskIds, u \in CrossUpdates :
          UpdateTask(q, t, u, FALSE)
    \/ \E q \in AllQueueIds, w \in WorkerIds : DeleteWorker(q, w, TRUE)
    \/ \E q \in AllQueueIds, c \in BOOLEAN : DeleteQueue(q, c)

SpecCross == InitCross /\ [][NextCross]_vars

\* SpecCount: one worker of max_retries MaxRetries holds tasks with a
\* heartbeat timeout of one second; the tasks are reported success, failed
\* and cancelled, their heartbeats refreshed, they time out and are swept,
\* and the worker is suspended and activated.  Calls that name the worker id
\* that was never created are refused.
NextCount ==
    \/ Tick(MaxTicks)
    \/ \E q \in QueueIds :
          CreateTask(q, SomeArgs, "", 1, None, MaxRetries, PriorityMedium)
    \/ \E q \in QueueIds : nextWorker = 1 /\ CreateWorker(q, MaxRetries)
    \/ \E q \in QueueIds, w \in WorkerIds :
          FetchTask(q, w, NoEta, None, TRUE, EmptyDict, EmptyDict)
    \/ \E q \in QueueIds, t \in TaskIds : RefreshTaskHeartbeat(q, t)
    \/ \E q \in QueueIds, t \in TaskIds, rs \in ReportStatuses :
          ReportTaskStatus(q, t, rs, EmptyDict)
    \/ \E q \in QueueIds, w \in WorkerIds, rs \in {"active", "suspended"} :
          ReportWorkerStatus(q, w, rs)
    \/ HandleTimeouts

SpecCount == Init /\ [][NextCount]_vars

Quiet == \A p \in Procs : flight[p].pc = "idle"

\* SpecName: two requests create queues and rename them, step by step, with
\* names that are taken, free, or being taken by the other request.
NextName ==
    \/ \E p \in Procs, n \in NewNames : CreateBegin(p, n)
    \/ \E p \in Procs, q \in AllQueueIds, n \in NewNames : RenameBegin(p, q, n)
    \/ \E p \in Procs : RenameWrite(p)
    \/ \E p \in Procs : QCommit(p)
    \/ \E q \in DOMAIN queues : Quiet /\ DeleteQueue(q, FALSE)

SpecName == Init /\ [][NextName]_vars

\* SpecTx: requests run failed reports, cascading delete_queue calls and
\* bare transactions step by step: entry, writes, nested entries with and
\* without allow_nesting, failures of the store, commit and the exits with
\* an exception.
NextTx ==
    \/ \E q \in QueueIds :
          Quiet /\ nextTask = 1 /\ CreateTask(q, SomeArgs, "", None, None, 0, PriorityMedium)
    \/ \E q \in QueueIds : Quiet /\ nextWorker = 1 /\ CreateWorker(q, MaxRetries)
    \/ \E q \in QueueIds, w \in WorkerIds :
          Quiet /\ FetchTask(q, w, NoEta, None, TRUE, EmptyDict, EmptyDict)
    \/ \E p \in Procs, call \in OpCalls : OpBegin(p, call)
    \/ \E p \in Procs, a \in BOOLEAN : TxOpen(p, a)
    \/ \E p \in Procs : TxOpenFails(p)
    \/ \E p \in Procs : TxStep(p)
    \/ \E p \in Procs : TxRaise(p)
    \/ \E p \in Procs : TxFault(p)
    \/ \E p \in Procs : TxUnwind(p)
    \/ \E p \in Procs : TxLeave(p)
    \/ \E p \in Procs : TxCommit(p)
    \/ \E p \in Procs : TxCommitFails(p)

SpecTx == Init /\ [][NextTx]_vars

\* SpecTrip: tasks of several args, with and without a cmd, are created,
\* fetched with and without a worker, and reported.
TripArgs == ArgsChoices \cup {EmptyDict}
TripCmds == {"", "run"}

NextTrip ==
    \/ \E q \in QueueIds, a \in TripArgs, c \in TripCmds :
          CreateTask(q, a, c, None, None, MaxRetries, PriorityMedium)
    \/ \E q \in QueueIds : CreateWorker(q, MaxRetries)
    \/ \E q \in QueueIds, w \in WorkerIds \cup {None} :
          FetchTask(q, w, NoEta, None, TRUE, EmptyDict, EmptyDict)
    \/ \E q \in QueueIds, t \in TaskIds, rs \in ReportStatuses :
          ReportTaskStatus(q, t, rs, EmptyDict)
    \/ \E q \in QueueIds, t \in TaskIds, w \in WorkerIds :
          WorkerReportTaskStatus(q, t, w, "success", EmptyDict)

SpecTrip == Init /\ [][NextTrip]_vars

\* SpecReset: tasks are run to SUCCESS, FAILED and CANCELLED, and
\* update_task(reset_pending=true) is called for tasks in these statuses.
TerminalStatuses == {SUCCESS, FAILED, CANCELLED}

TerminalTasks == {t \in DOMAIN tasks : tasks[t].status \in TerminalStatuses}

NextReset ==
    \/ \E q \in QueueIds, m \in RetryLimits :
          CreateTask(q, SomeArgs, "", None, None, m, PriorityMedium)
    \/ \E q \in QueueIds : CreateWorker(q, MaxRetries)
    \/ \E q \in QueueIds, w \in WorkerIds \cup {None} :
          FetchTask(q, w, NoEta, None, TRUE, EmptyDict, EmptyDict)
    \/ \E q \in QueueIds, t \in TaskIds, rs \in ReportStatuses :
          ReportTaskStatus(q, t, rs, EmptyDict)
    \/ \E q \in QueueIds, t \in TaskIds : CancelTask(q, t)
    \/ \E q \in QueueIds, t \in TerminalTasks : UpdateTask(q, t, EmptyDict, TRUE)

SpecReset == Init /\ [][NextReset]_vars

\* SpecQueue: several queues, each with tasks and workers, created and
\* deleted with and without cascade.  Every call but create_queue is made
\* with the credential of a queue that exists.
NextQueue ==
    \/ \E n \in QueueNames : CreateQueue(n)
    \/ \E q \in DOMAIN queues :
          CreateTask(q, SomeArgs, "", None, None, MaxRetries, PriorityMedium)
    \/ \E q \in DOMAIN queues : CreateWorker(q, MaxRetries)
    \/ \E q \in DOMAIN queues, w \in WorkerIds :
          FetchTask(q, w, NoEta, None, TRUE, EmptyDict, EmptyDict)
    \/ \E q \in DOMAIN queues, c \in BOOLEAN : DeleteQueue(q, c)

SpecQueue == Init /\ [][NextQueue]_vars

\* SpecBeat: heartbeats for tasks with a heartbeat timeout while sweeps run
\* in steps, so that a heartbeat falls before a sweep's snapshot, between its
\* snapshot and its write, between its write and its commit, or after it.
NextBeat ==
    \/ Tick(MaxTicks)
    \/ \E q \in QueueIds :
          CreateTask(q, SomeArgs, "", 1, None, MaxRetries, PriorityMedium)
    \/ \E q \in QueueIds :
          FetchTask(q, None, NoEta, None, TRUE, EmptyDict, EmptyDict)
    \/ \E q \in QueueIds, t \in TaskIds : RefreshTaskHeartbeat(q, t)
    \/ \E p \in Procs : SweepBegin(p)
    \/ \E p \in Procs : SweepWrite(p)
    \/ \E p \in Procs : SweepCommit(p)

SpecBeat == Init /\ [][NextBeat]_vars

\* SpecRace: fetch_task calls whose transactions overlap each other and the
\* transactions of other requests, with the filters a caller can pass.  Slot p
\* fetches for worker p; the workers are there from the start.
RequiredFields == {EmptyDict, [n |-> 1]}
ExtraFilters == {EmptyDict, [status |-> CANCELLED]}

InitRace ==
    /\ queues = [q \in QueueIds |-> NewQueue("q1", 0)]
    /\ tasks = EmptyDict
    /\ workers = [w \in Procs |-> NewWorker(1, MaxRetries)]
    /\ nextTask = 1
    /\ nextWorker = MaxProcs + 1
    /\ now = 0
    /\ last = Outcome("init", "ok")
    /\ returned = None
    /\ flight = [p \in Procs |-> Idle]
    /\ in_transaction = [p \in Procs |-> FALSE]

NextRace ==
    \/ \E q \in QueueIds, a \in ArgsChoices :
          CreateTask(q, a, "", None, None, MaxRetries, PriorityMedium)
    \/ \E p \in Procs, q \in QueueIds, rf \in RequiredFields, ef \in ExtraFilters :
          FetchBegin(p, q, p, NoEta, None, TRUE, rf, ef)
    \/ \E p \in Procs : FetchCommit(p)
    \/ \E q \in QueueIds, t \in TaskIds : CancelTask(q, t)
    \/ \E q \in QueueIds, t \in TaskIds : UpdateTask(q, t, EmptyDict, TRUE)

SpecRace == InitRace /\ [][NextRace]_vars

\* SpecSkew: the fetch_task call of slot p, made as worker p, runs in two
\* steps while the workers are suspended, failed and deleted by calls that
\* commit between the fetch's read of its worker and its commit.
NextSkew ==
    \/ \E q \in QueueIds :
          CreateTask(q, SomeArgs, "", None, None, MaxRetries, PriorityMedium)
    \/ \E p \in Procs, q \in QueueIds :
          FetchBegin(p, q, p, NoEta, None, TRUE, EmptyDict, EmptyDict)
    \/ \E p \in Procs : FetchCommit(p)
    \/ \E q \in QueueIds, w \in WorkerIds, rs \in {"suspended", "failed"} :
          ReportWorkerStatus(q, w, rs)
    \/ \E q \in QueueIds, w \in WorkerIds : DeleteWorker(q, w, TRUE)

SpecSkew == InitRace /\ [][NextSkew]_vars

\* ------------------------------------------------------------- properties
\* C1: when fetch_task calls overlap on a queue whose single PENDING task is
\* t, exactly one of them returns t and every other one returns null, and t's
\* worker_id is the winner's.  Two calls overlap when one's transaction was
\* open as the other's began; both saw t when t was the only task their
\* cursors could give.
C1_ExactlyOneFetchWins ==
    \A p \in Procs, o \in Procs, t \in TaskIds :
        ( /\ p # o
          /\ DOMAIN tasks = {t}
          /\ flight[p].pc = "done" /\ flight[o].pc = "done"
          /\ o \in flight[p].peers
          /\ flight[p].seen = {t} /\ flight[o].seen = {t} )
        => \E win \in {p, o} :
              LET lose == IF win = p THEN o ELSE p
              IN  /\ flight[win].err = "ok" /\ flight[win].ret = t
                  /\ flight[lose].err = "ok" /\ flight[lose].ret = None
                  /\ (tasks[t].status = RUNNING
                        => tasks[t].worker_id = flight[win].worker_id)

\* C2: a fetch_task call changes no task that is not PENDING when its update
\* is applied and returns no such task, whatever required_fields and
\* extra_filter it was given.
C2_FetchTakesOnlyPending ==
    [][\A p \in Procs :
          (flight[p].pc = "open" /\ flight'[p].pc = "done") =>
              \A t \in DOMAIN tasks :
                  tasks[t].status # PENDING
                      => tasks'[t] = tasks[t] /\ flight'[p].ret # t]_vars

\* A call that saw t PENDING, found it cancelled when it came to write, and
\* left it as it was.
C2_Witness ==
    \E p \in Procs, t \in DOMAIN tasks :
        /\ flight[p].pc = "done"
        /\ t \in flight[p].seen
        /\ flight[p].ret = None
        /\ tasks[t].status = CANCELLED

\* C3: every task whose status is not RUNNING has worker_id null.
C3_IdleTaskHasNoWorker ==
    \A t \in DOMAIN tasks : tasks[t].status # RUNNING => tasks[t].worker_id = None

\* C4 as stated: every RUNNING task has a worker_id and a start_time.
C4_RunningHasWorkerAndStart ==
    \A t \in DOMAIN tasks :
        tasks[t].status = RUNNING
            => tasks[t].worker_id # None /\ tasks[t].start_time # None

\* C4: every RUNNING task has a start_time, also when it was fetched without
\* a worker_id or its worker has been deleted.
C4_RunningHasStartTime ==
    \A t \in DOMAIN tasks : tasks[t].status = RUNNING => tasks[t].start_time # None

\* A worker has just been deleted and a task is RUNNING with no worker_id.
C4_Witness ==
    /\ last.op = "delete_worker"
    /\ returned > 0
    /\ \E t \in DOMAIN tasks :
          /\ tasks[t].status = RUNNING
          /\ tasks[t].worker_id = None
          /\ tasks[t].start_time # None

\* C5 as stated: a PENDING or FAILED task has retries <= max_retries.
C5_RetriesWithinLimit ==
    \A t \in DOMAIN tasks :
        tasks[t].status \in {PENDING, FAILED} => tasks[t].retries <= tasks[t].max_retries

\* C5: a PENDING task has retries <= max_retries and a FAILED task has
\* retries = max_retries + 1, after any fetches, failed reports and sweeps.
C5_RetriesByStatus ==
    \A t \in DOMAIN tasks :
        /\ tasks[t].status = PENDING => tasks[t].retries <= tasks[t].max_retries
        /\ tasks[t].status = FAILED => tasks[t].retries = tasks[t].max_retries + 1

\* A sweep has just failed a task for good, and another task waits for a retry.
C5_Witness ==
    /\ last.op = "handle_timeouts"
    /\ \E t \in DOMAIN tasks, u \in DOMAIN tasks :
          /\ t \in {returned[i] : i \in DOMAIN returned}
          /\ tasks[t].status = FAILED
          /\ tasks[t].retries = MaxRetries + 1
          /\ tasks[u].status = PENDING
          /\ tasks[u].retries = tasks[u].max_retries
          /\ tasks[u].retries > 0


\* C6: a failed report that is accepted changes one task, which was RUNNING:
\* it adds exactly one to the task's retries and returns it to PENDING while
\* its retries were below max_retries, and sets it FAILED otherwise (so with
\* retries = max_retries + 1 after max_retries + 1 failures); nothing but a
\* failure changes retries; a FAILED task stays as it is and no fetch_task
\* call returns it.
C6_FailuresCountToFailed ==
    [][LET reported == last'.op \in {"report_task_status", "worker_report_task_status"}
                          /\ last'.err = "ok"
       IN  /\ reported => \E t \in DOMAIN tasks : tasks'[t] # tasks[t]
           /\ \A t \in DOMAIN tasks :
                 /\ (reported /\ tasks'[t] # tasks[t])
                    => /\ tasks[t].status = RUNNING
                       /\ tasks'[t].retries = tasks[t].retries + 1
                       /\ tasks'[t].status =
                             IF tasks[t].retries < tasks[t].max_retries
                             THEN PENDING ELSE FAILED
                 /\ last'.op = "fetch_task" => tasks'[t].retries = tasks[t].retries
                 /\ tasks[t].status = FAILED
                    => /\ tasks'[t] = tasks[t]
                       /\ last'.op = "fetch_task" => returned' # t]_vars

\* A report has just failed a task of max_retries = MaxRetries for good.
C6_Witness ==
    /\ last.op \in {"report_task_status", "worker_report_task_status"}
    /\ last.err = "ok"
    /\ \E t \in DOMAIN tasks :
          /\ tasks[t].status = FAILED
          /\ tasks[t].max_retries = MaxRetries
          /\ tasks[t].retries = MaxRetries + 1

\* C7: a fetch_task call with no required_fields and no extra_filter returns
\* a PENDING task of the queue that no other PENDING task of the queue
\* precedes by higher priority, then earlier last_modified, then earlier
\* created_at; it returns null only when the queue has no PENDING task.
C7_FetchOrder ==
    [][\A q \in QueueIds :
          last'.op = "fetch_task" =>
              LET P == {t \in DOMAIN tasks :
                          tasks[t].queue_id = q /\ tasks[t].status = PENDING}
                  r == returned'
              IN  IF P = {} THEN r = None
                  ELSE /\ r \in P
                       /\ \A u \in P :
                             /\ tasks[u].priority <= tasks[r].priority
                             /\ tasks[u].priority = tasks[r].priority
                                => tasks[u].last_modified >= tasks[r].last_modified
                             /\ ( /\ tasks[u].priority = tasks[r].priority
                                  /\ tasks[u].last_modified = tasks[r].last_modified )
                                => tasks[u].created_at >= tasks[r].created_at]_vars

\* A fetch has just returned a task of high priority past an older PENDING
\* task of medium priority.
C7_Witness ==
    /\ last.op = "fetch_task"
    /\ returned \in DOMAIN tasks
    /\ tasks[returned].status = RUNNING
    /\ tasks[returned].priority = PriorityHigh
    /\ \E u \in DOMAIN tasks :
          /\ tasks[u].status = PENDING
          /\ tasks[u].priority = PriorityMedium
          /\ tasks[u].created_at < tasks[returned].created_at

\* C8: one handle_timeouts call moves every RUNNING task whose heartbeat or
\* task timeout is exceeded to PENDING if its retries < max_retries and to
\* FAILED otherwise, with retries + 1 and worker_id null, and the worker that
\* held it has its retries incremented.
C8_SweepMovesEveryTimedOut ==
    [][last'.op = "handle_timeouts" =>
          \A t \in DOMAIN tasks :
              LET d == tasks[t]
              IN  ( /\ d.status = RUNNING
                    /\ \/ /\ d.last_heartbeat # None /\ d.heartbeat_timeout # None
                          /\ now - d.last_heartbeat > d.heartbeat_timeout * MsPerSecond
                       \/ /\ d.task_timeout # None /\ d.start_time # None
                          /\ now - d.start_time > d.task_timeout * MsPerSecond )
                  => /\ tasks'[t].status = IF d.retries < d.max_retries
                                           THEN PENDING ELSE FAILED
                     /\ tasks'[t].retries = d.retries + 1
                     /\ tasks'[t].worker_id = None
                     /\ d.worker_id \in DOMAIN workers
                        => workers'[d.worker_id].retries
                              > workers[d.worker_id].retries]_vars

\* C9: handle_timeouts changes a task only if the task is RUNNING and its
\* last_heartbeat and heartbeat_timeout are set with now - last_heartbeat >
\* heartbeat_timeout, or its task_timeout and start_time are set with
\* now - start_time > task_timeout; it creates and deletes no task.
C9_SweepChangesOnlyTimedOut ==
    [][last'.op = "handle_timeouts" =>
          /\ DOMAIN tasks' = DOMAIN tasks
          /\ \A t \in DOMAIN tasks :
                tasks'[t] # tasks[t]
                => /\ tasks[t].status = RUNNING
                   /\ \/ /\ tasks[t].last_heartbeat # None
                         /\ tasks[t].heartbeat_timeout # None
                         /\ now - tasks[t].last_heartbeat
                               > tasks[t].heartbeat_timeout * MsPerSecond
                      \/ /\ tasks[t].task_timeout # None
                         /\ tasks[t].start_time # None
                         /\ now - tasks[t].start_time
                               > tasks[t].task_timeout * MsPerSecond]_vars

\* A sweep has just moved one task and left alone a RUNNING task whose last
\* heartbeat is exactly heartbeat_timeout old.
C9_Witness ==
    /\ last.op = "handle_timeouts"
    /\ Len(returned) = 1
    /\ \E u \in DOMAIN tasks :
          /\ tasks[u].status = RUNNING
          /\ tasks[u].heartbeat_timeout # None
          /\ tasks[u].last_heartbeat # None
          /\ now - tasks[u].last_heartbeat = tasks[u].heartbeat_timeout * MsPerSecond

\* C10: worker_report_task_status with a worker_id that is not the task's
\* fails with Conflict for every report_status and changes no task and no
\* worker; for a task id the queue does not hold it fails with NotFound.
C10_WrongWorkerConflict ==
    \A q \in QueueIds, t \in TaskIds, w \in WorkerIds, rs \in AnyReportStatus :
        LET r == worker_report_task_status(tasks, workers, now, q, t, w, rs, EmptyDict)
        IN  /\ ~Found(tasks, t, q)
               => r.err = "NotFound" /\ r.tasks = tasks /\ r.workers = workers
            /\ (Found(tasks, t, q) /\ tasks[t].worker_id # w)
               => r.err = "Conflict" /\ r.tasks = tasks /\ r.workers = workers

\* A report has just been refused with Conflict while one worker holds a
\* RUNNING task and a second worker exists.
C10_Witness ==
    /\ last.op = "worker_report_task_status"
    /\ last.err = "Conflict"
    /\ \E t \in DOMAIN tasks, w \in DOMAIN workers :
          /\ tasks[t].status = RUNNING
          /\ tasks[t].worker_id \in DOMAIN workers
          /\ w # tasks[t].worker_id


\* C11: once handle_timeouts has failed a task that worker W held, every
\* worker_report_task_status for it by W is rejected and changes nothing
\* until W fetches it again.  In steps: every task a sweep changes is left
\* with worker_id null; a task's worker_id becomes a worker only by a
\* fetch_task that returns the task; and in every state a report by a worker
\* that is not the task's worker_id is rejected with Conflict and changes
\* no task and no worker.
C11_LateReportRejected ==
    [][/\ last'.op = "handle_timeouts"
          => \A t \in DOMAIN tasks :
                tasks'[t] # tasks[t] => tasks'[t].worker_id = None
       /\ \A t \in DOMAIN tasks \cap DOMAIN tasks' :
             (tasks'[t].worker_id # tasks[t].worker_id /\ tasks'[t].worker_id # None)
             => last'.op = "fetch_task" /\ returned' = t
       /\ \A q \in QueueIds, t \in DOMAIN tasks', w \in WorkerIds, rs \in ReportStatuses :
             LET r == worker_report_task_status(tasks', workers', now', q, t, w, rs,
                                                EmptyDict)
             IN  tasks'[t].worker_id # w
                 => r.err = "Conflict" /\ r.tasks = tasks' /\ r.workers = workers']_vars

\* A report has just been refused with Conflict for a task that a sweep took
\* from its worker and that another worker now runs.
C11_Witness ==
    /\ last.op = "worker_report_task_status"
    /\ last.err = "Conflict"
    /\ \E t \in DOMAIN tasks :
          /\ "labtasker_error" \in DOMAIN tasks[t].summary
          /\ tasks[t].status = RUNNING
          /\ tasks[t].worker_id \in DOMAIN workers
          /\ workers[tasks[t].worker_id].retries = 0
          /\ Cardinality(DOMAIN tasks) = 1
          /\ Cardinality(DOMAIN workers) = 2
          /\ \E w \in DOMAIN workers : workers[w].retries > 0


\* C12: refresh_task_heartbeat never raises, whatever the task's status, and
\* changes only last_heartbeat: every other field of every task, the set of
\* tasks and every worker are as before.
C12_HeartbeatChangesOnlyHeartbeat ==
    [][last'.op = "refresh_task_heartbeat" =>
          /\ last'.err = "ok"
          /\ workers' = workers
          /\ DOMAIN tasks' = DOMAIN tasks
          /\ \A t \in DOMAIN tasks :
                /\ DOMAIN tasks'[t] = DOMAIN tasks[t]
                /\ \A f \in DOMAIN tasks[t] \ {"last_heartbeat"} :
                      tasks'[t][f] = tasks[t][f]]_vars

\* A heartbeat has just been written on a task that is FAILED, later than
\* the task was last modified.
C12_Witness ==
    /\ last.op = "refresh_task_heartbeat"
    /\ returned = TRUE
    /\ \E t \in DOMAIN tasks :
          /\ tasks[t].status = FAILED
          /\ tasks[t].last_heartbeat = now
          /\ tasks[t].last_modified < now


\* C13 as stated: when refresh_task_heartbeat and handle_timeouts act at the
\* same instant on a RUNNING task that has timed out, only one of them takes
\* effect: a heartbeat that returns normally leaves alone every task that a
\* sweep has moved out of RUNNING at this very instant.
C13_OnlyOneTakesEffect ==
    [][(last'.op = "refresh_task_heartbeat" /\ last'.err = "ok")
          => \A t \in DOMAIN tasks :
                (/\ "labtasker_error" \in DOMAIN tasks[t].summary
                 /\ tasks[t].last_modified = now
                 /\ tasks[t].status # RUNNING)
                => tasks'[t] = tasks[t]]_vars

\* C13, amended: a sweep that commits changes only tasks that are RUNNING
\* and timed out in the store at its commit; a sweep that a heartbeat has
\* overtaken between its snapshot and its write aborts with an internal error
\* and changes nothing; a heartbeat is either refused with an internal error
\* and changes nothing (a sweep holds an uncommitted write to the task), or
\* changes last_heartbeat only, also on a task a sweep has already moved out
\* of RUNNING.
C13_SweepAndHeartbeatSerialize ==
    [][/\ \A p \in Procs :
             (flight[p].pc = "written" /\ flight'[p].pc = "idle")
             => \A t \in DOMAIN tasks :
                   tasks'[t] # tasks[t]
                   => /\ tasks[t].status = RUNNING
                      /\ HeartbeatTimedOut(tasks[t], flight[p].clock)
                      /\ tasks'[t].status # RUNNING
       /\ \A p \in Procs :
             (flight[p].pc = "sweeping" /\ flight'[p].pc = "idle")
             => /\ last' = Outcome("handle_timeouts", "InternalError")
                /\ tasks' = tasks
                /\ workers' = workers
       /\ last'.op = "refresh_task_heartbeat"
          => \/ last'.err = "InternalError" /\ tasks' = tasks
             \/ /\ last'.err = "ok"
                /\ DOMAIN tasks' = DOMAIN tasks
                /\ \A t \in DOMAIN tasks :
                      \A f \in DOMAIN tasks[t] \ {"last_heartbeat"} :
                         tasks'[t][f] = tasks[t][f]]_vars

\* A heartbeat has just been refused because a sweep holds an uncommitted
\* write to a timed-out RUNNING task, and another sweep has been aborted
\* before: both rejections of the race have happened.
C13_Witness ==
    /\ last = Outcome("refresh_task_heartbeat", "InternalError")
    /\ \E p \in Procs :
          /\ flight[p].pc = "written"
          /\ \E t \in flight[p].written :
                /\ tasks[t].status = RUNNING
                /\ HeartbeatTimedOut(tasks[t], flight[p].clock)


\* C14: in every reachable state, delete_queue(queue_id, cascade_delete=true)
\* returns normally and leaves no queue, no task and
\* no worker with that queue_id; the count it returns is the number of
\* documents it removed; every other queue and every task and worker of
\* another queue is as before.
C14_CascadeDeleteRemovesQueue ==
    \A q \in AllQueueIds :
       LET r == delete_queue(queues, tasks, workers, q, TRUE)
       IN  /\ r.err = "ok"
           /\ q \notin DOMAIN r.queues
           /\ \A t \in DOMAIN r.tasks : r.tasks[t].queue_id # q
           /\ \A w \in DOMAIN r.workers : r.workers[w].queue_id # q
           /\ r.ret = Cardinality(DOMAIN queues \ DOMAIN r.queues)
                        + Cardinality(DOMAIN tasks \ DOMAIN r.tasks)
                        + Cardinality(DOMAIN workers \ DOMAIN r.workers)
           /\ \A o \in DOMAIN queues \ {q} :
                 o \in DOMAIN r.queues /\ r.queues[o] = queues[o]
           /\ \A t \in DOMAIN tasks :
                 tasks[t].queue_id # q => t \in DOMAIN r.tasks /\ r.tasks[t] = tasks[t]
           /\ \A w \in DOMAIN workers :
                 workers[w].queue_id # q
                 => w \in DOMAIN r.workers /\ r.workers[w] = workers[w]

\* A cascading delete_queue has just removed a queue with a task and a
\* worker, and the task and the worker of the other queue are still there.
C14_Witness ==
    /\ last = Outcome("delete_queue", "ok")
    /\ returned = 3
    /\ Cardinality(DOMAIN queues) = 1
    /\ \E q \in DOMAIN queues :
          /\ \E t \in DOMAIN tasks : tasks[t].queue_id = q
          /\ \E w \in DOMAIN workers : workers[w].queue_id = q
          /\ \A t \in DOMAIN tasks : tasks[t].queue_id = q
          /\ \A w \in DOMAIN workers : workers[w].queue_id = q


\* C15: in every reachable state, delete_worker(queue_id, worker_id,
\* cascade_update=true) returns normally, removes the worker, and leaves no
\* task with that worker_id; the set of tasks and the status and retries of
\* every task are as before the call.
C15_CascadeClearsWorkerId ==
    \A q \in QueueIds, w \in WorkerIds :
       LET r == delete_worker(tasks, workers, now, q, w, TRUE)
       IN  /\ r.err = "ok"
           /\ w \notin DOMAIN r.workers
           /\ DOMAIN r.tasks = DOMAIN tasks
           /\ \A t \in DOMAIN tasks :
                 /\ r.tasks[t].worker_id # w
                 /\ r.tasks[t].status = tasks[t].status
                 /\ r.tasks[t].retries = tasks[t].retries

\* A cascading delete_worker has just removed a worker and cleared the
\* worker_id of the two tasks it held, one of them RUNNING and one not.
C15_Witness ==
    /\ last = Outcome("delete_worker", "ok")
    /\ returned = 3
    /\ \E t \in DOMAIN tasks : tasks[t].status = RUNNING /\ tasks[t].worker_id = None
    /\ \E t \in DOMAIN tasks : tasks[t].status # RUNNING /\ tasks[t].worker_id = None


\* C16: in every reachable state, every worker_id on a task that is not null
\* names a worker that exists in the task's queue.
C16_WorkerIdNamesWorker ==
    \A t \in DOMAIN tasks :
       tasks[t].worker_id # None
       => Found(workers, tasks[t].worker_id, tasks[t].queue_id)


\* C17: update_task(reset_pending=true) for a task that is SUCCESS, FAILED
\* or CANCELLED returns true and leaves the task PENDING with retries 0, every
\* other task and every worker as before; the task is then among the tasks a
\* fetch_task of its queue selects, and a fetch that takes it makes it
\* RUNNING.
C17_ResetMakesFetchable ==
    [][last'.op = "update_task"
       => /\ last'.err = "ok"
          /\ returned' = TRUE
          /\ workers' = workers
          /\ DOMAIN tasks' = DOMAIN tasks
          /\ \A t \in DOMAIN tasks :
                tasks'[t] # tasks[t]
                => /\ tasks[t].status \in TerminalStatuses
                   /\ tasks'[t].status = PENDING
                   /\ tasks'[t].retries = 0
                   /\ t \in FetchCandidates(tasks',
                                            FetchQuery(tasks[t].queue_id, EmptyDict,
                                                       EmptyDict),
                                            EmptyDict)
                   /\ fetch_task(tasks', workers', now', tasks[t].queue_id, None,
                                 NoEta, None, TRUE, EmptyDict, EmptyDict,
                                 t).tasks[t].status = RUNNING
          /\ \E t \in DOMAIN tasks : tasks'[t] # tasks[t]]_vars

\* A reset has just put back to PENDING with retries 0 a task of
\* max_retries 0 that had been fetched and had then ended in SUCCESS, FAILED
\* or CANCELLED.
C17_Witness ==
    /\ last = Outcome("update_task", "ok")
    /\ returned = TRUE
    /\ \E t \in DOMAIN tasks :
          /\ tasks[t].status = PENDING
          /\ tasks[t].retries = 0
          /\ tasks[t].start_time # None
          /\ tasks[t].max_retries = 0


\* C18: from every reachable state and for every args A, when
\* create_task(args=A) returns an id, a fetch_task (with any worker or none)
\* returns that task and a report of "success" for it (by report_task_status,
\* or by worker_report_task_status of the worker that fetched it) returns,
\* get_task yields the task with status SUCCESS, retries 0, args = A and
\* worker_id null, and the report leaves every worker as it was.
C18_RoundTrip ==
    \A q \in QueueIds, a \in TripArgs, c \in TripCmds, w \in WorkerIds \cup {None} :
       LET id == nextTask
           r1 == create_task(tasks, workers, now, id, q, a, c, None, None,
                             MaxRetries, PriorityMedium)
           r2 == fetch_task(r1.tasks, r1.workers, now, q, w, NoEta, None, TRUE,
                            EmptyDict, EmptyDict, id)
           r3 == report_task_status(r2.tasks, r2.workers, now, q, id, "success",
                                    EmptyDict)
           r4 == worker_report_task_status(r2.tasks, r2.workers, now, q, id, w,
                                           "success", EmptyDict)
           Done(r) == /\ r.err = "ok"
                      /\ Found(r.tasks, id, q)
                      /\ r.tasks[id].status = SUCCESS
                      /\ r.tasks[id].retries = 0
                      /\ r.tasks[id].args = a
                      /\ r.tasks[id].worker_id = None
                      /\ r.workers = r2.workers
       IN  (/\ r1.err = "ok"
            /\ id \in FetchPicks(r1.tasks, q, EmptyDict, EmptyDict)
            /\ r2.err = "ok")
           => Done(r3) /\ (w # None => Done(r4))

\* A task created with args {n: 2} has been fetched by a worker and has just
\* been reported as a success: it is SUCCESS with retries 0, its args and no
\* worker_id, and the worker is ACTIVE with retries 0.
C18_Witness ==
    /\ last \in {Outcome("report_task_status", "ok"),
                 Outcome("worker_report_task_status", "ok")}
    /\ \E t \in DOMAIN tasks :
          /\ tasks[t].status = SUCCESS
          /\ tasks[t].retries = 0
          /\ tasks[t].args = [n |-> 2]
          /\ tasks[t].worker_id = None
          /\ tasks[t].start_time # None
    /\ \E w \in DOMAIN workers : workers[w].status = ACTIVE /\ workers[w].retries = 0


\* C19: in every reachable state, a fetch_task whose worker_id names no
\* worker of the queue fails with NotFound, and one whose worker is SUSPENDED
\* or CRASHED fails with Forbidden; either way every task and every worker
\* is as before, so no task changes its status or its worker_id.
C19_FetchRefusedForWorker ==
    \A q \in QueueIds, w \in WorkerIds, call \in FetchCalls :
       \A pick \in FetchPicks(tasks, q, EmptyDict, EmptyDict) :
          LET r == fetch_task(tasks, workers, now, q, w, call[1], None, call[2],
                              EmptyDict, EmptyDict, pick)
          IN  /\ ~Found(workers, w, q) => r.err = "NotFound"
              /\ (Found(workers, w, q) /\ workers[w].status \in {SUSPENDED, CRASHED})
                 => r.err = "Forbidden"
              /\ r.err \in {"NotFound", "Forbidden"}
                 => r.tasks = tasks /\ r.workers = workers

\* A fetch_task has just been refused with Forbidden while a task is PENDING,
\* one worker is SUSPENDED and the other is CRASHED.
C19_Witness ==
    /\ last = Outcome("fetch_task", "Forbidden")
    /\ returned = None
    /\ \E t \in DOMAIN tasks : tasks[t].status = PENDING
    /\ \E w \in DOMAIN workers : workers[w].status = SUSPENDED
    /\ \E w \in DOMAIN workers : workers[w].status = CRASHED


\* C20: when a fetch_task commits a task with worker_id = W, W exists in the
\* queue and is ACTIVE in the store at that point, also when a report of W's
\* status or a delete of W has committed since the fetch read W.
C20_AssignedWorkerIsActive ==
    [][\A p \in Procs :
          (/\ flight[p].pc = "open"
           /\ flight'[p].pc = "done"
           /\ flight'[p].err = "ok"
           /\ flight'[p].ret # None
           /\ flight'[p].worker_id # None)
          => /\ Found(workers', flight'[p].worker_id, flight[p].queue_id)
             /\ workers'[flight'[p].worker_id].status = ACTIVE]_vars


\* C21 as stated: in every reachable state, report_task_status and
\* worker_report_task_status with success, failed or cancelled for a task
\* that is not RUNNING, or with any other report_status, fail with BadRequest
\* and leave every task and every worker unchanged.
C21_BadReportIsBadRequest ==
    \A q \in QueueIds, t \in DOMAIN tasks, rs \in AnyReportStatus :
       (tasks[t].status # RUNNING \/ rs \notin ReportStatuses)
       => LET r == report_task_status(tasks, workers, now, q, t, rs, EmptyDict)
          IN  /\ r.err = "BadRequest" /\ r.tasks = tasks /\ r.workers = workers
              /\ \A w \in WorkerIds :
                    LET v == worker_report_task_status(tasks, workers, now, q, t, w,
                                                       rs, EmptyDict)
                    IN  v.err = "BadRequest" /\ v.tasks = tasks /\ v.workers = workers

\* C21, amended: such a report is always refused and leaves every task and
\* every worker unchanged; report_task_status fails with BadRequest, and
\* worker_report_task_status fails with BadRequest when the task's worker_id
\* is the caller's and with Conflict when it is not.
C21_BadReportIsRefused ==
    \A q \in QueueIds, t \in DOMAIN tasks, rs \in AnyReportStatus :
       (tasks[t].status # RUNNING \/ rs \notin ReportStatuses)
       => LET r == report_task_status(tasks, workers, now, q, t, rs, EmptyDict)
          IN  /\ r.err = "BadRequest" /\ r.tasks = tasks /\ r.workers = workers
              /\ \A w \in WorkerIds :
                    LET v == worker_report_task_status(tasks, workers, now, q, t, w,
                                                       rs, EmptyDict)
                    IN  /\ v.err = IF tasks[t].worker_id = w THEN "BadRequest"
                                   ELSE "Conflict"
                        /\ v.tasks = tasks
                        /\ v.workers = workers

\* A worker's report has just been refused with BadRequest for a task that
\* is CANCELLED and still carries the worker's id, while the other task is
\* RUNNING.
C21_Witness ==
    /\ last = Outcome("worker_report_task_status", "BadRequest")
    /\ \E t \in DOMAIN tasks :
          tasks[t].status = CANCELLED /\ tasks[t].worker_id \in DOMAIN workers
    /\ \E t \in DOMAIN tasks : tasks[t].status = RUNNING


\* C22: in every reachable state, a "failed" report for a RUNNING task that
\* has a worker_id either returns, and then the task has left RUNNING with
\* retries + 1 and no worker_id, its worker has retries + 1 and is CRASHED
\* iff the new retries exceed its max_retries, and every other worker is as
\* before; or it raises, and then every task and every worker is as before.
\* It returns whenever the worker exists and is ACTIVE.  Reports of success
\* and cancelled leave every worker as before.
C22_FailedReportUpdatesBoth ==
    \A q \in QueueIds, t \in DOMAIN tasks :
       (tasks[t].status = RUNNING /\ tasks[t].worker_id # None)
       => LET w == tasks[t].worker_id
              r == report_task_status(tasks, workers, now, q, t, "failed", EmptyDict)
              v == worker_report_task_status(tasks, workers, now, q, t, w, "failed",
                                             EmptyDict)
          IN  /\ v = r
              /\ (Found(workers, w, q) /\ workers[w].status = ACTIVE) => r.err = "ok"
              /\ r.err = "ok"
                 => /\ r.tasks[t].status \in {PENDING, FAILED}
                    /\ r.tasks[t].retries = tasks[t].retries + 1
                    /\ r.tasks[t].worker_id = None
                    /\ Found(workers, w, q)
                    /\ DOMAIN r.workers = DOMAIN workers
                    /\ r.workers[w].retries = workers[w].retries + 1
                    /\ r.workers[w].status =
                          IF workers[w].retries + 1 > workers[w].max_retries
                          THEN CRASHED ELSE ACTIVE
                    /\ \A o \in DOMAIN workers \ {w} : r.workers[o] = workers[o]
              /\ r.err # "ok" => r.tasks = tasks /\ r.workers = workers
              /\ \A rs \in {"success", "cancelled"} :
                    /\ report_task_status(tasks, workers, now, q, t, rs,
                                          EmptyDict).workers = workers
                    /\ worker_report_task_status(tasks, workers, now, q, t, w, rs,
                                                 EmptyDict).workers = workers

\* A failed report has just crashed a worker: the worker is CRASHED with
\* retries above its max_retries, a task has left RUNNING with retries
\* counted and no worker_id, and the other task is still RUNNING and held by
\* the crashed worker.
C22_Witness ==
    /\ last.op \in {"report_task_status", "worker_report_task_status"}
    /\ last.err = "ok"
    /\ \E w \in DOMAIN workers :
          /\ workers[w].status = CRASHED
          /\ workers[w].retries = workers[w].max_retries + 1
          /\ \E t \in DOMAIN tasks : tasks[t].status = RUNNING /\ tasks[t].worker_id = w
          /\ \E t \in DOMAIN tasks :
                /\ tasks[t].status \in {PENDING, FAILED}
                /\ tasks[t].retries > 0
                /\ tasks[t].worker_id = None

\* The number of entries to transaction() a request has not left yet.
Entries(f) ==
    IF "tokens" \in DOMAIN f THEN Len(f.tokens)
    ELSE IF "token" \in DOMAIN f THEN 1 ELSE 0

\* C23: the in-transaction flag of a request has, after every exit from
\* DBService.transaction (a normal return, an HTTPException, another
\* exception, a session that cannot be opened), the value it had before the
\* entry: it is set exactly while the request is inside a transaction and
\* false when the request executes nothing.  A request's flag changes only
\* in a step of that request, and the entry of a request that is in no
\* transaction is not refused because another request is in one.
C23_FlagIsRestored ==
    [][\A p \in Procs :
          /\ in_transaction'[p] = (Entries(flight'[p]) > 0)
          /\ Entries(flight'[p]) < Entries(flight[p])
                => in_transaction'[p] = (Entries(flight[p]) > 1)
          /\ in_transaction'[p] # in_transaction[p] => flight'[p] # flight[p]
          /\ in_transaction'[p] # in_transaction[p]
                => \A o \in Procs \ {p} : in_transaction'[o] = in_transaction[o]
          /\ (Entries(flight[p]) = 0 /\ flight' = flight /\ last' # last)
                => last'.err # "NestedTransaction"
      ]_vars

\* C23 witness: one request is in a transaction nested in another with its
\* flag set while the other request, whose last call ended with an
\* exception that was not an HTTPException, executes nothing and has its flag
\* false.
C23_Witness ==
    /\ flight[1].pc = "body"
    /\ Len(flight[1].tokens) = 2
    /\ in_transaction[1]
    /\ flight[2].pc = "idle"
    /\ ~in_transaction[2]
    /\ last.op = "report_task_status"
    /\ last.err = "InternalError"

\* C24: an entry to transaction() made while the request's flag is set and
\* without allow_nesting raises the nested-transaction error: the store and
\* the writes of the enclosing session are as before and the flag stays set.
\* An entry with allow_nesting is let in while the flag is set.  The error is
\* raised only where the caller itself enters again inside a transaction:
\* no operation raises it through the helpers it calls, the failed report
\* that updates the worker included.
C24_NestedEntryIsRefused ==
    [][\A p \in Procs :
          /\ (/\ flight[p].pc = "body"
              /\ flight'[p].pc = "raising"
              /\ flight'[p].err = "NestedTransaction")
                => /\ in_transaction[p] /\ in_transaction'[p]
                   /\ flight'[p].where = "caller"
                   /\ flight'[p].tokens = flight[p].tokens
                   /\ <<flight'[p].written, flight'[p].wwritten, flight'[p].qwritten>>
                        = <<flight[p].written, flight[p].wwritten, flight[p].qwritten>>
                   /\ <<queues', tasks', workers'>> = <<queues, tasks, workers>>
          /\ (flight[p].pc = "body" /\ flight'[p].pc = "body"
                /\ Len(flight'[p].tokens) > Len(flight[p].tokens))
                => /\ in_transaction[p] /\ in_transaction'[p]
                   /\ flight'[p].op = flight[p].op
                   /\ flight'[p].steps = flight[p].steps
          /\ (flight[p].pc = "idle" /\ flight'[p].pc = "body")
                => ~in_transaction[p] /\ in_transaction'[p]
      ]_vars

\* C24 witness: a request that has written the worker of a failed report
\* in its session was refused a second entry, with its flag still set and
\* the worker in the store as before, while the other request is inside a
\* transaction that it entered with allow_nesting inside another.
C24_Witness ==
    /\ flight[1].pc = "raising"
    /\ flight[1].err = "NestedTransaction"
    /\ flight[1].op = "report_task_status"
    /\ flight[1].wwritten # {}
    /\ \A w \in flight[1].wwritten : workers[w] = flight[1].base.workers[w]
    /\ in_transaction[1]
    /\ flight[2].pc = "body"
    /\ Len(flight[2].tokens) = 2

\* C25: an operation that ends with an error leaves queues, tasks and
\* workers as they were (while it runs, no document it has written is
\* visible in the store), and the error it ends with is the HTTPException
\* that was raised, or InternalError when the exception was of another kind.
C25_ErrorsLeaveStoreAndAreTyped ==
    [][\A p \in Procs :
          /\ (flight'[p].pc \in {"body", "raising"})
                => /\ \A t \in flight'[p].written \cap DOMAIN flight'[p].base.tasks :
                         t \in DOMAIN tasks' /\ tasks'[t] = flight'[p].base.tasks[t]
                   /\ \A w \in flight'[p].wwritten \cap DOMAIN flight'[p].base.workers :
                         w \in DOMAIN workers' /\ workers'[w] = flight'[p].base.workers[w]
                   /\ \A q \in flight'[p].qwritten \cap DOMAIN flight'[p].base.queues :
                         q \in DOMAIN queues' /\ queues'[q] = flight'[p].base.queues[q]
          /\ (/\ flight[p].pc \in {"body", "raising"}
              /\ flight[p].op # "transaction"
              /\ flight'[p].pc = "idle"
              /\ last'.err # "ok")
                => /\ <<queues', tasks', workers'>> = <<queues, tasks, workers>>
                   /\ last'.op = flight[p].op
                   /\ last'.err \in TypedErrors
                   /\ flight[p].pc = "raising"
                   /\ last'.err = IF flight[p].err \in TypedErrors THEN flight[p].err
                                  ELSE "InternalError"
      ]_vars

NamesUnique(qs) == \A a, b \in DOMAIN qs : qs[a].queue_name = qs[b].queue_name => a = b

\* A create_queue or update_queue call ends with an error in this step.
QueueCallFails ==
    /\ last' # last
    /\ last'.op \in {"create_queue", "update_queue"}
    /\ last'.err # "ok"

\* C26 as the spec states it: no two queues have the same name, and a
\* create_queue or update_queue call that fails, alone or while another call
\* for the same name runs, fails with Conflict or BadRequest (create_queue)
\* or BadRequest (update_queue) and leaves the queues unchanged.
C26_TakenNameIsConflictOrBadRequest ==
    [][/\ NamesUnique(queues')
       /\ QueueCallFails
            => /\ queues' = queues
               /\ last'.op = "create_queue" => last'.err \in {"Conflict", "BadRequest"}
               /\ last'.op = "update_queue" => last'.err = "BadRequest"
      ]_vars

\* C26 amended: no two queues have the same name.  On every reachable
\* store create_queue gives BadRequest for the empty name and Conflict for a
\* name some queue carries, and update_queue gives BadRequest for a
\* non-empty new name some queue carries, each with the queues unchanged.  A
\* call that fails leaves the queues unchanged; it fails with InternalError
\* instead only when a call of another request overlaps it: the other call
\* holds the name or the queue uncommitted, or committed after the snapshot
\* of this call.
C26_NamesStayUnique ==
    [][/\ NamesUnique(queues')
       /\ \A n \in NewNames :
            LET taken == \E q \in DOMAIN queues' : queues'[q].queue_name = n
                c == create_queue(queues', tasks', workers', now', 0, n)
            IN  /\ c.err = IF n = "" THEN "BadRequest"
                            ELSE IF taken THEN "Conflict" ELSE "ok"
                /\ c.err # "ok" => c.queues = queues'
                /\ \A q \in DOMAIN queues' :
                      LET u == update_queue(queues', tasks', workers', now', q, n)
                      IN  /\ u.err = IF taken THEN "BadRequest" ELSE "ok"
                          /\ u.err # "ok" => u.queues = queues'
                          /\ u.err = "ok" => NamesUnique(u.queues)
       /\ QueueCallFails
            => /\ queues' = queues
               /\ last'.err \in {"Conflict", "BadRequest", "InternalError"}
               /\ last'.op = "update_queue" => last'.err # "Conflict"
               /\ last'.err = "InternalError"
                    => \E p \in Procs :
                          \/ /\ flight' = flight
                             /\ flight[p].pc = "pending"
                          \/ /\ flight[p].pc = "checked"
                             /\ flight'[p].pc = "idle"
                             /\ \/ flight[p].base # queues
                                \/ flight[p].qdirty # {}
                                \/ \E o \in Procs \ {p} : flight[o].pc = "pending"
      ]_vars

\* C26 witness: a rename lost against a call of the other request that took
\* the same name first: it ended with InternalError, the name is carried by
\* one queue only and both requests are done.
C26_Witness ==
    /\ last = Outcome("update_queue", "InternalError")
    /\ Quiet
    /\ Cardinality(DOMAIN queues) = 2
    /\ Cardinality({q \in DOMAIN queues : queues[q].queue_name = "q3"}) = 1

\* C27 as the spec states it: every RUNNING task with a heartbeat_timeout
\* has a last_heartbeat.
C27_RunningHasHeartbeat ==
    \A t \in DOMAIN tasks :
        (tasks[t].status = RUNNING /\ tasks[t].heartbeat_timeout # None)
            => tasks[t].last_heartbeat # None

\* C27 amended: fetch_task gives the task it takes the last_heartbeat `now`
\* with start_heartbeat and null without it, whatever heartbeat the task had
\* before; the last_heartbeat of a RUNNING task is null or not older than
\* its start_time, and a RUNNING task without one gets one by
\* refresh_task_heartbeat only.
C27_HeartbeatStartsOnRequest ==
    [][/\ \A q \in QueueIds, h \in HeartbeatTimeouts, call \in FetchCalls :
            \A pick \in FetchPicks(tasks', q, EmptyDict, EmptyDict) \ {None} :
               LET r == fetch_task(tasks', workers', now', q, None, call[1], h, call[2],
                                   EmptyDict, EmptyDict, pick)
               IN  /\ r.tasks[pick].status = RUNNING
                   /\ r.tasks[pick].last_heartbeat = IF call[2] THEN now' ELSE None
       /\ \A t \in DOMAIN tasks' :
            tasks'[t].status = RUNNING
              => /\ \/ tasks'[t].last_heartbeat = None
                    \/ tasks'[t].last_heartbeat >= tasks'[t].start_time
                 /\ (t \notin DOMAIN tasks \/ tasks[t].status # RUNNING)
                      => /\ last'.op = "fetch_task"
                         /\ tasks'[t].last_heartbeat \in {None, now'}
                 /\ (/\ t \in DOMAIN tasks
                     /\ tasks[t].status = RUNNING
                     /\ tasks[t].last_heartbeat = None
                     /\ tasks'[t].last_heartbeat # None)
                      => last'.op = "refresh_task_heartbeat"
      ]_vars

\* C27 witness: a task that had a heartbeat in an earlier run was fetched
\* again without start_heartbeat: it is RUNNING with a heartbeat_timeout
\* that has passed since its start and with no last_heartbeat, and a sweep
\* has left it so.
C27_Witness ==
    /\ last = Outcome("handle_timeouts", "ok")
    /\ \E t \in DOMAIN tasks :
          /\ tasks[t].status = RUNNING
          /\ tasks[t].retries > 0
          /\ tasks[t].heartbeat_timeout # None
          /\ tasks[t].last_heartbeat = None
          /\ now - tasks[t].start_time > tasks[t].heartbeat_timeout * MsPerSecond

\* Whether the table of the worker's transitions has an entry for the
\* worker's status and the report.
InTable(worker, report_status) ==
    \/ report_status = "suspended" /\ worker.status = ACTIVE
    \/ report_status = "active" /\ worker.status \in {SUSPENDED, CRASHED}
    \/ report_status = "failed" /\ worker.status = ACTIVE

\* The worker a report gives by the table, the worker itself without an
\* entry.
WorkerAfter(worker, report_status) ==
    IF report_status = "suspended" /\ worker.status = ACTIVE
      THEN [worker EXCEPT !.status = SUSPENDED]
    ELSE IF report_status = "active" /\ worker.status \in {SUSPENDED, CRASHED}
      THEN [worker EXCEPT !.status = ACTIVE, !.retries = 0]
    ELSE IF report_status = "failed" /\ worker.status = ACTIVE
      THEN [worker EXCEPT !.retries = @ + 1,
                          !.status = IF worker.retries + 1 <= worker.max_retries
                                     THEN ACTIVE ELSE CRASHED]
    ELSE worker

\* C28: report_worker_status applies the transitions of the worker's table
\* and no other: suspended from ACTIVE gives SUSPENDED with retries kept,
\* active from SUSPENDED or CRASHED gives ACTIVE with retries 0, failed from
\* ACTIVE counts a retry and gives ACTIVE while retries + 1 <= max_retries
\* and CRASHED beyond.  Any other pair, an unknown report_status and an
\* unknown worker are refused, and then workers and tasks are unchanged.
C28_WorkerReportsFollowTable ==
    \A q \in AllQueueIds, w \in WorkerIds, rs \in WorkerReports \cup {"activate", ""} :
        LET r == report_worker_status(tasks, workers, q, w, rs)
            known == w \in DOMAIN workers /\ workers[w].queue_id = q
        IN  /\ r.tasks = tasks
            /\ r.err = IF ~known THEN "NotFound"
                        ELSE IF ~InTable(workers[w], rs) THEN "BadRequest" ELSE "ok"
            /\ r.err # "ok" => r.workers = workers
            /\ r.err = "ok"
                 => r.workers = [workers EXCEPT ![w] = WorkerAfter(workers[w], rs)]

\* C28 witness: reports have crashed one worker with a retry beyond its
\* max_retries and suspended another that had counted a failure.
C28_Witness ==
    /\ last = Outcome("report_worker_status", "ok")
    /\ \E w \in DOMAIN workers :
          workers[w].status = CRASHED /\ workers[w].retries = workers[w].max_retries + 1
    /\ \E w \in DOMAIN workers :
          workers[w].status = SUSPENDED /\ workers[w].retries > 0

\* C29 as the spec states it: every CRASHED worker has retries <=
\* max_retries.
C29_CrashedWithinLimit ==
    \A w \in DOMAIN workers :
        workers[w].status = CRASHED => workers[w].retries <= workers[w].max_retries

\* C29 amended: the failure that crashes a worker is counted: every CRASHED
\* worker has retries = max_retries + 1, and every ACTIVE or SUSPENDED
\* worker has retries <= max_retries.
C29_CrashedOneBeyondLimit ==
    \A w \in DOMAIN workers :
        /\ workers[w].status = CRASHED => workers[w].retries = workers[w].max_retries + 1
        /\ workers[w].status \in {ACTIVE, SUSPENDED}
              => workers[w].retries <= workers[w].max_retries

\* C29 witness: a failed report for a task has crashed a worker of
\* max_retries 1 at its second failure, with retries 2.
C29_Witness ==
    /\ last = Outcome("report_task_status", "ok")
    /\ \E w \in DOMAIN workers :
          /\ workers[w].status = CRASHED
          /\ workers[w].max_retries = MaxRetries
          /\ workers[w].retries = MaxRetries + 1

\* The RUNNING tasks that a worker holds.
HeldTasks == {t \in DOMAIN tasks : tasks[t].status = RUNNING /\ tasks[t].worker_id # None}

\* C30 as the spec states it: after cancel_task on a RUNNING task that a
\* worker holds, the task is CANCELLED, its worker_id is no longer the
\* worker's, and the worker's report for it is refused for that (Conflict)
\* and changes nothing.
C30_CancelUnbindsWorker ==
    \A t \in HeldTasks :
        LET w == tasks[t].worker_id
            c == cancel_task(tasks, workers, now, tasks[t].queue_id, t)
        IN  /\ c.tasks[t].status = CANCELLED
            /\ c.tasks[t].worker_id # w
            /\ \A rs \in AnyReportStatus :
                  LET r == worker_report_task_status(c.tasks, c.workers, now,
                                tasks[t].queue_id, t, w, rs, EmptyDict)
                  IN  r.err = "Conflict" /\ r.tasks = c.tasks /\ r.workers = c.workers

\* C30 amended: cancel_task on a RUNNING task that a worker holds leaves it
\* CANCELLED with its worker_id kept.  For every CANCELLED task that carries
\* a worker_id, the report of that worker is refused with BadRequest, as
\* CANCELLED has no transition for a report, the report of any other worker
\* is refused with Conflict, and neither changes a task or a worker.
C30_CancelledRefusesReport ==
    /\ \A t \in HeldTasks :
          LET c == cancel_task(tasks, workers, now, tasks[t].queue_id, t)
          IN  /\ c.err = "ok"
              /\ c.workers = workers
              /\ c.tasks = [tasks EXCEPT ![t].status = CANCELLED, ![t].last_modified = now]
    /\ \A t \in DOMAIN tasks :
          (tasks[t].status = CANCELLED /\ tasks[t].worker_id # None)
            => \A w \in WorkerIds, rs \in AnyReportStatus :
                  LET r == worker_report_task_status(tasks, workers, now,
                                tasks[t].queue_id, t, w, rs, EmptyDict)
                  IN  /\ r.err = IF w = tasks[t].worker_id THEN "BadRequest" ELSE "Conflict"
                      /\ r.tasks = tasks
                      /\ r.workers = workers

\* C30 witness: both tasks were cancelled while workers held them and are
\* CANCELLED with their worker_id kept, and the report of a worker for its
\* task has just been refused with BadRequest.
C30_Witness ==
    /\ last = Outcome("worker_report_task_status", "BadRequest")
    /\ Cardinality(DOMAIN tasks) = MaxTasks
    /\ \A t \in DOMAIN tasks :
          /\ tasks[t].status = CANCELLED
          /\ tasks[t].worker_id \in DOMAIN workers
          /\ workers[tasks[t].worker_id].status = ACTIVE

\* The tasks that a sweep in flight listed: RUNNING and timed out in its
\* snapshot.
Listed(f) == {t \in DOMAIN f.tasks : TimedOut(f.tasks[t], f.clock)}

\* The listed tasks whose own processing raises nothing: the task can take
\* fail, and it has no worker or a worker that can take fail.
Sound(f) ==
    {t \in Listed(f) :
        LET one == SweepOne([tasks |-> f.tasks, workers |-> f.workers, ret |-> <<>>],
                            t, f.clock)
        IN  one.ret = <<t>>}

\* C31 as the spec states it: a sweep that ends has not raised, every listed
\* task whose own processing raises nothing has left RUNNING in the store,
\* whatever happened to the other listed tasks, and the returned list holds
\* exactly the tasks whose update was applied.
C31_SweepSurvivesTaskErrors ==
    [][\A p \in Procs :
          (flight[p].pc \in {"sweeping", "written"} /\ flight'[p].pc = "idle")
            => /\ last'.op = "handle_timeouts"
               /\ last'.err = "ok"
               /\ \A t \in Sound(flight[p]) \cap DOMAIN tasks' :
                     tasks'[t].status # RUNNING
               /\ {returned'[i] : i \in DOMAIN returned'} = Changed(tasks, tasks')]_vars

\* C32: fetch_task with start_heartbeat false and no eta_max is refused with
\* BadRequest whatever the store holds (a missing or suspended worker, no
\* task) and leaves the store as it is; with start_heartbeat false and an
\* eta_max, the task it returns has last_heartbeat null and task_timeout the
\* parsed eta_max; and a sweep moves a RUNNING task that has no last_heartbeat
\* only when its task timeout is exceeded, also when its heartbeat_timeout is
\* long over.
C32_NoHeartbeatNeedsEta ==
    /\ \A q \in QueueIds, w \in WorkerIds \cup {None} :
       \A pick \in FetchPicks(tasks, q, EmptyDict, EmptyDict) :
          /\ fetch_task(tasks, workers, now, q, w, NoEta, None, FALSE,
                        EmptyDict, EmptyDict, pick)
               = Raise("BadRequest", tasks, workers)
          /\ \A eta \in EtaChoices \ {NoEta} :
                LET r == fetch_task(tasks, workers, now, q, w, eta, None, FALSE,
                                    EmptyDict, EmptyDict, pick)
                IN  (r.err = "ok" /\ r.ret # None)
                      => /\ r.tasks[r.ret].status = RUNNING
                         /\ r.tasks[r.ret].last_heartbeat = None
                         /\ r.tasks[r.ret].task_timeout = parse_timeout(eta)
    /\ \A list \in SweepLists(tasks, now) :
          LET r == handle_timeouts(tasks, workers, now, list)
          IN  \A t \in DOMAIN tasks :
                 (tasks[t].status = RUNNING /\ tasks[t].last_heartbeat = None)
                   => \/ ExecutionTimedOut(tasks[t], now)
                      \/ r.tasks[t] = tasks[t]

\* C32 witness: two tasks with a heartbeat timeout of one second were fetched
\* without a heartbeat two seconds ago, one with eta_max "1s" and one with
\* "1m"; the sweep that has just returned has moved the first and left the
\* second RUNNING.
C32_Witness ==
    /\ last = Outcome("handle_timeouts", "ok")
    /\ \E t, u \in DOMAIN tasks :
          /\ returned = <<t>>
          /\ tasks[t].status = PENDING
          /\ tasks[t].task_timeout = 1
          /\ tasks[t].summary = [labtasker_error |-> TimeoutError]
          /\ tasks[u].status = RUNNING
          /\ tasks[u].last_heartbeat = None
          /\ tasks[u].heartbeat_timeout = 1
          /\ tasks[u].task_timeout = SecondsPerMinute
          /\ now - tasks[u].start_time > tasks[u].heartbeat_timeout * MsPerSecond

\* C33 as the spec states it: a fetch_task call that has opened its cursor
\* ends, also while other calls fetch, cancel and reset, with what its
\* checks and its candidates give: the error of its checks, or else null
\* when it takes no candidate and otherwise one task, which the call has
\* made RUNNING for its worker.  A candidate that another caller grabbed is
\* skipped, never an error.
C33_FetchEndsWithTaskOrNull ==
    [][\A p \in Procs :
          (flight[p].pc = "open" /\ flight'[p].pc = "done")
            => LET f == flight[p]
                   e == FetchError(f.workers, f.queue_id, f.worker_id, f.eta_max,
                                   f.start_heartbeat, f.required_fields, f.extra_filter)
               IN  /\ flight'[p].err = e
                   /\ e = "ok"
                        => \/ returned' = None
                           \/ /\ returned' \in DOMAIN tasks'
                              /\ tasks'[returned'].status = RUNNING
                              /\ tasks'[returned'].worker_id = f.worker_id]_vars

\* C34 as the spec states it: a task that is RUNNING with its heartbeat or
\* task timeout exceeded is, under repeated sweeps, eventually no longer
\* RUNNING, whatever has happened to the worker that holds it.
C34_TimedOutLeavesRunning ==
    \A t \in TaskIds :
        (t \in DOMAIN tasks /\ TimedOut(tasks[t], now))
          ~> (t \in DOMAIN tasks /\ tasks[t].status # RUNNING)

\* C35 as the spec states it: a task that is SUCCESS or FAILED changes its
\* status only in an update_task call that resets it to PENDING, and a
\* cancel_task call changes the status only of a task that is PENDING or
\* RUNNING.
C35_FinishedStaysFinished ==
    [][\A t \in DOMAIN tasks \cap DOMAIN tasks' :
          tasks'[t].status # tasks[t].status
            => /\ tasks[t].status \in {SUCCESS, FAILED}
                    => (last'.op = "update_task" /\ tasks'[t].status = PENDING)
               /\ last'.op = "cancel_task"
                    => tasks[t].status \in {PENDING, RUNNING}]_vars

\* The documents that differ between old and new are all of queue q, as
\* they were and as they are.
OwnedBy(q, old, new) ==
    \A i \in Changed(old, new) :
        /\ i \in DOMAIN old => old[i].queue_id = q
        /\ i \in DOMAIN new => new[i].queue_id = q

\* What a call for queue q hands back touches tasks and workers of q only.
Within(q, r) == OwnedBy(q, tasks, r.tasks) /\ OwnedBy(q, workers, r.workers)

\* C36: in every reachable state, every call made for a queue q (create,
\* fetch, heartbeat, report, update, cancel or delete of a task; create,
\* report or delete of a worker; delete_queue with and without cascade)
\* creates, changes and deletes only tasks and workers whose queue_id is q,
\* whatever task id, worker id, extra filter or worker_id update it is given.
C36_CallsStayInTheirQueue ==
    \A q \in AllQueueIds :
        /\ Within(q, create_task(tasks, workers, now, nextTask, q, SomeArgs, "",
                                 1, None, MaxRetries, PriorityMedium))
        /\ Within(q, create_worker(tasks, workers, nextWorker, q, MaxRetries))
        /\ \A c \in BOOLEAN : Within(q, delete_queue(queues, tasks, workers, q, c))
        /\ \A w \in WorkerIds \cup {None}, ef \in CrossFilters :
           \A pick \in FetchPicks(tasks, q, EmptyDict, ef) :
              Within(q, fetch_task(tasks, workers, now, q, w, NoEta, None, TRUE,
                                   EmptyDict, ef, pick))
        /\ \A t \in TaskIds :
              /\ Within(q, refresh_task_heartbeat(tasks, workers, now, q, t))
              /\ Within(q, cancel_task(tasks, workers, now, q, t))
              /\ Within(q, delete_task(tasks, workers, q, t))
              /\ \A rs \in AnyReportStatus :
                    /\ Within(q, report_task_status(tasks, workers, now, q, t, rs,
                                                    EmptyDict))
                    /\ \A w \in WorkerIds :
                          Within(q, worker_report_task_status(tasks, workers, now, q,
                                                              t, w, rs, EmptyDict))
              /\ \A u \in CrossUpdates, reset \in BOOLEAN :
                    Within(q, update_task(tasks, workers, now, q, t, u, reset))
        /\ \A w \in WorkerIds :
              /\ \A c \in BOOLEAN : Within(q, delete_worker(tasks, workers, now, q, w, c))
              /\ \A rs \in WorkerReports :
                    Within(q, report_worker_status(tasks, workers, q, w, rs))

\* C36 witness: the two tasks are of different queues, each RUNNING for the
\* worker of its own queue, and the report that a worker has just made for
\* its task under the other queue's id was refused as not found.
C36_Witness ==
    /\ last = Outcome("worker_report_task_status", "NotFound")
    /\ DOMAIN tasks = TaskIds
    /\ \A t, u \in TaskIds : t # u => tasks[t].queue_id # tasks[u].queue_id
    /\ \A t \in TaskIds :
          /\ tasks[t].status = RUNNING
          /\ tasks[t].worker_id \in DOMAIN workers
          /\ workers[tasks[t].worker_id].queue_id = tasks[t].queue_id

\* The tasks that worker w held and that this step has failed: their retries
\* have gone up by one.
FailedFor(w) ==
    {t \in DOMAIN tasks \cap DOMAIN tasks' :
        tasks[t].worker_id = w /\ tasks'[t].retries = tasks[t].retries + 1}

\* C37: a worker's retries go up by one for every task it holds that a
\* failed report or a sweep fails in the step, whatever the number of such
\* tasks; no fetch_task, success or cancelled report or heartbeat changes a
\* worker; retries go down only in a report_worker_status that activates a
\* SUSPENDED or CRASHED worker, and then to 0; so the retries of a worker
\* that is ACTIVE before and after a step have not gone down.
C37_RetriesAccumulate ==
    [][\A w \in DOMAIN workers \cap DOMAIN workers' :
          /\ last'.op \in {"report_task_status", "handle_timeouts"}
                => workers'[w].retries = workers[w].retries + Cardinality(FailedFor(w))
          /\ (last'.op = "report_task_status" /\ FailedFor(w) = {})
                => workers'[w] = workers[w]
          /\ last'.op \in {"fetch_task", "refresh_task_heartbeat", "create_task", "tick"}
                => workers'[w] = workers[w]
          /\ workers'[w].retries < workers[w].retries
                => /\ last'.op = "report_worker_status"
                   /\ workers[w].status \in {SUSPENDED, CRASHED}
                   /\ workers'[w].status = ACTIVE
                   /\ workers'[w].retries = 0
          /\ (workers[w].status = ACTIVE /\ workers'[w].status = ACTIVE)
                => workers'[w].retries >= workers[w].retries]_vars

\* C37 witness: a worker of max_retries 1 counts two retries from two tasks:
\* one it failed by a report, and one that the sweep which has just returned
\* timed out.
C37_Witness ==
    /\ last = Outcome("handle_timeouts", "ok")
    /\ \E w \in DOMAIN workers, t, u \in DOMAIN tasks :
          /\ t # u
          /\ returned = <<t>>
          /\ tasks[t].retries = 1
          /\ tasks[t].summary = [labtasker_error |-> TimeoutError]
          /\ tasks[u].retries = 1
          /\ tasks[u].summary = EmptyDict
          /\ workers[w].max_retries = 1
          /\ workers[w].retries = 2
====
